---- MODULE Spec2Model ----
(***************************************************************************)
(* DHCPv4 / DHCPv6-PD client drivers of ftth-dhcp (src/src/ipv4.rs,        *)
(* src/src/ipv6.rs).  A driver handle holds no mutable state besides its   *)
(* socket: every public operation is one call that reads at most one       *)
(* datagram and sends at most one.  A state of the model is the handle's   *)
(* identity together with the last call made on it: its arguments, the     *)
(* decoded datagram it read, what it sent and what it returned.            *)
(* Byte strings, addresses and Rust Strings are sequences of bytes;        *)
(* Option<T> is <<>> (None) or <<x>> (Some(x)).                            *)
(***************************************************************************)
EXTENDS Integers, Sequences, FiniteSets, TLC

VARIABLES
  local_if_mac,  \* the MAC the handle was constructed with
  local_ll_addr, \* the link-local address of the v6 handle
  call,          \* the driver call last made, with its arguments
  sent,          \* the datagram that call handed to send_to
  ret,           \* what that call returned
  io,            \* the socket operations that call performed, in order
  pc,            \* where the orchestrator is ("api": no orchestrator)
  res,           \* the orchestrator's res: the response it holds
  ia,            \* the orchestrator's ia_id
  steps,         \* the steps the orchestrator has taken, in order
  loop           \* the locals of a sub-option walk run step by step

vars == <<local_if_mac, local_ll_addr, call, sent, ret, io, pc, res, ia, steps, loop>>
demo == <<pc, res, ia, steps>>

(* ------------------------------ bounds -------------------------------- *)
\* options carried by one received DHCPv4 message
MaxOpts4 == 3
\* sub-options in a received option-125 payload
MaxSubOpts == 2
\* bytes cut off the end of a received option-125 payload
MaxCut == 1
\* complete addresses in a received option-120 payload
MaxAddrs120 == 2
\* options carried by one received DHCPv6 message
MaxOpts6 == 3
\* options nested in one received IA-PD container
MaxInner == 2

\* arbitrary bytes in a received vendor payload (after the header of 125)
MaxRaw == 4
\* bytes of data in a received sub-option 204
MaxLabelData == 5

\* options in a DHCPv4 reply to the orchestrator
MaxDemoOpts4 == 2
\* options in a DHCPv6 reply to the orchestrator
MaxDemoOpts6 == 3
\* bytes in the payload of a received v6 SIP or SNTP server option
MaxAddrBytes == 33
\* bytes in the sub-option region of an option 125 walked step by step
MaxWalk == 5

(* ------------------------- program constants -------------------------- *)
VENDOR_CODE_NTT == 210
SERVER_PORT4 == 67
SERVER_PORT6 == 547

(* ------------------------------ helpers ------------------------------- *)
None == <<>>
Some(x) == <<x>>

Zero4 == <<0, 0, 0, 0>>
Broadcast4 == <<255, 255, 255, 255>>

\* u32::from_be_bytes
FromBeBytes(b) == ((b[1] * 256 + b[2]) * 256 + b[3]) * 256 + b[4]
\* u32::to_be_bytes
ToBeBytes(n) == << (n \div 16777216) % 256, (n \div 65536) % 256,
                   (n \div 256) % 256, n % 256 >>
\* a Rust slice data[a..b] (0-based, end exclusive)
Slice(data, a, b) == SubSeq(data, a + 1, b)

RECURSIVE Flatten(_)
Flatten(ss) == IF ss = <<>> THEN <<>> ELSE Head(ss) \o Flatten(Tail(ss))

\* all orders in which the elements of a finite set can be visited
RECURSIVE Orders(_)
Orders(S) == IF S = {} THEN {<<>>}
             ELSE UNION {{<<x>> \o o : o \in Orders(S \ {x})} : x \in S}

(* ------------------------------ UTF-8 --------------------------------- *)
IsCont(b) == b >= 128 /\ b <= 191
Byte(s, i) == IF i <= Len(s) THEN s[i] ELSE 256

\* length of the well-formed UTF-8 sequence starting at s[i], 0 if none
Utf8SeqLen(s, i) ==
  LET b0 == s[i]
      b1 == Byte(s, i + 1)
      b2 == Byte(s, i + 2)
      b3 == Byte(s, i + 3)
  IN  IF b0 < 128 THEN 1
      ELSE IF b0 >= 194 /\ b0 <= 223
        THEN (IF IsCont(b1) THEN 2 ELSE 0)
      ELSE IF b0 = 224
        THEN (IF b1 >= 160 /\ b1 <= 191 /\ IsCont(b2) THEN 3 ELSE 0)
      ELSE IF (b0 >= 225 /\ b0 <= 236) \/ b0 = 238 \/ b0 = 239
        THEN (IF IsCont(b1) /\ IsCont(b2) THEN 3 ELSE 0)
      ELSE IF b0 = 237
        THEN (IF b1 >= 128 /\ b1 <= 159 /\ IsCont(b2) THEN 3 ELSE 0)
      ELSE IF b0 = 240
        THEN (IF b1 >= 144 /\ b1 <= 191 /\ IsCont(b2) /\ IsCont(b3) THEN 4 ELSE 0)
      ELSE IF b0 >= 241 /\ b0 <= 243
        THEN (IF IsCont(b1) /\ IsCont(b2) /\ IsCont(b3) THEN 4 ELSE 0)
      ELSE IF b0 = 244
        THEN (IF b1 >= 128 /\ b1 <= 143 /\ IsCont(b2) /\ IsCont(b3) THEN 4 ELSE 0)
      ELSE 0

\* number of bytes of the ill-formed sequence at s[i] that one U+FFFD replaces
Utf8ErrorLen(s, i) ==
  LET b0 == s[i]
      b1 == Byte(s, i + 1)
      b2 == Byte(s, i + 2)
      ok1 == IF b0 = 224 THEN b1 >= 160 /\ b1 <= 191
             ELSE IF b0 = 237 THEN b1 >= 128 /\ b1 <= 159
             ELSE IF b0 = 240 THEN b1 >= 144 /\ b1 <= 191
             ELSE IF b0 = 244 THEN b1 >= 128 /\ b1 <= 143
             ELSE IF b0 >= 225 /\ b0 <= 243 THEN IsCont(b1)
             ELSE FALSE
  IN  IF ~ok1 THEN 1
      ELSE IF b0 >= 240 /\ IsCont(b2) THEN 3
      ELSE 2

RECURSIVE IsUtf8From(_, _)
IsUtf8From(s, i) ==
  IF i > Len(s) THEN TRUE
  ELSE LET n == Utf8SeqLen(s, i) IN n > 0 /\ IsUtf8From(s, i + n)

\* str::from_utf8(s).is_ok()
IsUtf8(s) == IsUtf8From(s, 1)

RECURSIVE LossyFrom(_, _)
LossyFrom(s, i) ==
  IF i > Len(s) THEN <<>>
  ELSE LET n == Utf8SeqLen(s, i)
       IN  IF n > 0 THEN SubSeq(s, i, i + n - 1) \o LossyFrom(s, i + n)
           ELSE <<239, 191, 189>> \o LossyFrom(s, i + Utf8ErrorLen(s, i))

\* String::from_utf8_lossy(s).into_owned()
FromUtf8Lossy(s) == LossyFrom(s, 1)

\* position (1-based) of the first NUL of s, 0 if there is none
RECURSIVE NulFrom(_, _)
NulFrom(s, i) == IF i > Len(s) THEN 0 ELSE IF s[i] = 0 THEN i ELSE NulFrom(s, i + 1)
FirstNul(s) == NulFrom(s, 1)

\* CStr::from_bytes_until_nul(s).unwrap_or_default().to_str().unwrap_or("")
CStrUntilNul(s) ==
  LET n == FirstNul(s)
      c == IF n = 0 THEN <<>> ELSE SubSeq(s, 1, n - 1)
  IN  IF IsUtf8(c) THEN c ELSE <<>>

\* [String].join(".")
RECURSIVE Join(_)
Join(labels) == IF labels = <<>> THEN <<>>
                ELSE IF Len(labels) = 1 THEN labels[1]
                ELSE labels[1] \o <<46>> \o Join(Tail(labels))

(* ===================== DHCPv4: Dhcp4Client::recv ====================== *)
\* a decoded dhcproto::v4::DhcpOption; every variant uses the same record
\* shape and leaves the fields it does not have at their empty value
Opt4(kind, addr, addrs, num, mtype, routes, data) ==
  [kind |-> kind, addr |-> addr, addrs |-> addrs, num |-> num,
   mtype |-> mtype, routes |-> routes, data |-> data]
SubnetMaskOpt(mask) == Opt4("SubnetMask", mask, <<>>, 0, "", <<>>, <<>>)
RouterOpt(rtaddr) == Opt4("Router", Zero4, rtaddr, 0, "", <<>>, <<>>)
DomainNameServerOpt(srv) == Opt4("DomainNameServer", Zero4, srv, 0, "", <<>>, <<>>)
AddressLeaseTimeOpt(at) == Opt4("AddressLeaseTime", Zero4, <<>>, at, "", <<>>, <<>>)
MessageTypeOpt(t) == Opt4("MessageType", Zero4, <<>>, 0, t, <<>>, <<>>)
ServerIdentifierOpt(srvid) == Opt4("ServerIdentifier", srvid, <<>>, 0, "", <<>>, <<>>)
RenewalOpt(t1) == Opt4("Renewal", Zero4, <<>>, t1, "", <<>>, <<>>)
RebindingOpt(t2) == Opt4("Rebinding", Zero4, <<>>, t2, "", <<>>, <<>>)
ClasslessStaticRouteOpt(csr) == Opt4("ClasslessStaticRoute", Zero4, <<>>, 0, "", csr, <<>>)
UnknownOpt(data) == Opt4("Unknown", Zero4, <<>>, 0, "", <<>>, data)

\* Ipv4Net::network(): the address with the host bits cleared
RECURSIVE Pow2(_)
Pow2(n) == IF n = 0 THEN 1 ELSE 2 * Pow2(n - 1)
MaskByte(b, keep) == IF keep >= 8 THEN b
                     ELSE IF keep <= 0 THEN 0
                     ELSE b - (b % Pow2(8 - keep))
Network(addr, len) == [i \in 1..4 |-> MaskByte(addr[i], len - 8 * (i - 1))]

\* the locals of recv before the option loop (ipv4.rs 204-214); panic is
\* set when an index or a range is out of the bounds of its slice
Locals4 ==
  [subnet_mask |-> None, router_addrs |-> <<>>, addr_time |-> 0,
   renewal_time |-> 0, rebind_time |-> 0, sip_server_addrs |-> <<>>,
   sip_domain_name |-> None, sip_main_number |-> None,
   sip_add_numbers |-> <<>>, server_addr |-> None, static_routes |-> <<>>,
   err |-> "", panic |-> FALSE]

\* slice[i] panics unless i < slice.len()
IndexOk(slice, i) == i < Len(slice)
\* slice[a..b] panics unless a <= b and b <= slice.len()
RangeOk(slice, a, b) == a <= b /\ b <= Len(slice)
Panicked(st) == [st EXCEPT !.panic = TRUE]

\* SipAddrLoop with the bounds check off by one
RECURSIVE SipAddrLoopOffByOne(_, _, _, _)
SipAddrLoopOffByOne(data, count, i, st) ==
  IF i >= count THEN st
  ELSE LET start == 1 + i * 4
           end == start + 4
       IN  IF end >= Len(data) THEN st
           ELSE IF ~RangeOk(data, start, end) THEN Panicked(st)
           ELSE SipAddrLoopOffByOne(data, count, i + 1,
                  [st EXCEPT !.sip_server_addrs = Append(@, Slice(data, start, end))])

\* the address loop of option 120 (ipv4.rs 263-272)
RECURSIVE SipAddrLoop(_, _, _, _)
SipAddrLoop(data, count, i, st) ==
  IF i >= count THEN st
  ELSE LET start == 1 + i * 4
           end == start + 4
       IN  IF end > Len(data) THEN st
           ELSE IF ~RangeOk(data, start, end) THEN Panicked(st)
           ELSE SipAddrLoop(data, count, i + 1,
                  [st EXCEPT !.sip_server_addrs = Append(@, Slice(data, start, end))])

\* option 120 (ipv4.rs 258-273)
Option120(data, st) ==
  IF Len(data) < 1 THEN st
  ELSE IF ~IndexOk(data, 0) THEN Panicked(st)
  ELSE SipAddrLoop(data, data[1], 0, st)

\* the locals of the label loop (ipv4.rs 321-322)
NoLabels == [labels |-> <<>>, panic |-> FALSE]

\* LabelLoop taking what is left of the data as the last label when the
\* declared length runs past the end
RECURSIVE LabelLoopPartial(_, _, _)
LabelLoopPartial(subopt_data, i, acc) ==
  IF ~(i < Len(subopt_data)) THEN acc
  ELSE LET label_len == subopt_data[i + 1]
           start_i == i + 1
           end_i == IF start_i + label_len > Len(subopt_data)
                    THEN Len(subopt_data) ELSE start_i + label_len
       IN  IF label_len = 0 THEN acc
           ELSE IF start_i >= Len(subopt_data) THEN acc
           ELSE LabelLoopPartial(subopt_data, end_i,
                  [acc EXCEPT !.labels =
                     Append(@, FromUtf8Lossy(Slice(subopt_data, start_i, end_i)))])

\* the label loop of sub-option 204 (ipv4.rs 323-339)
RECURSIVE LabelLoop(_, _, _)
LabelLoop(subopt_data, i, acc) ==
  IF ~(i < Len(subopt_data)) THEN acc
  ELSE IF ~IndexOk(subopt_data, i) THEN [acc EXCEPT !.panic = TRUE]
  ELSE LET label_len == subopt_data[i + 1]
           start_i == i + 1
           end_i == start_i + label_len
       IN  IF label_len = 0 THEN acc
           ELSE IF start_i >= Len(subopt_data) THEN acc
           ELSE IF end_i > Len(subopt_data) THEN acc
           ELSE IF ~RangeOk(subopt_data, start_i, end_i) THEN [acc EXCEPT !.panic = TRUE]
           ELSE LabelLoop(subopt_data, end_i,
                  [acc EXCEPT !.labels =
                     Append(@, FromUtf8Lossy(Slice(subopt_data, start_i, end_i)))])

\* one sub-option of the enterprise block (ipv4.rs 302-344)
SubOption(subopt_code, subopt_data, st) ==
  IF subopt_code = 202 THEN
    LET main == CStrUntilNul(subopt_data)
    IN  IF main # <<>> THEN [st EXCEPT !.sip_main_number = Some(main)] ELSE st
  ELSE IF subopt_code = 203 THEN
    LET add == CStrUntilNul(subopt_data)
    IN  IF add # <<>> THEN [st EXCEPT !.sip_add_numbers = Append(@, add)] ELSE st
  ELSE IF subopt_code = 204 THEN
    LET r == LabelLoop(subopt_data, 0, NoLabels)
    IN  IF r.panic THEN Panicked(st)
        ELSE [st EXCEPT !.sip_domain_name = Some(Join(r.labels))]
  ELSE st

\* SubOptionWalk without the test that the sub-option ends inside the
\* payload
RECURSIVE SubOptionWalkNoEndCheck(_, _, _)
SubOptionWalkNoEndCheck(data, pos, st) ==
  IF st.panic \/ ~((pos + 1) < Len(data)) THEN st
  ELSE LET subopt_code == data[pos + 1]
           subopt_len == data[pos + 2]
           startoffset == pos + 2
           endoffset == startoffset + subopt_len
       IN  IF startoffset >= Len(data) THEN st
           ELSE IF ~RangeOk(data, startoffset, endoffset) THEN Panicked(st)
           ELSE SubOptionWalkNoEndCheck(data, pos + 2 + subopt_len,
                  SubOption(subopt_code, Slice(data, startoffset, endoffset), st))

\* the sub-option walk of option 125 (ipv4.rs 289-346)
RECURSIVE SubOptionWalk(_, _, _)
SubOptionWalk(data, pos, st) ==
  IF st.panic \/ ~((pos + 1) < Len(data)) THEN st
  ELSE IF ~IndexOk(data, pos) \/ ~IndexOk(data, pos + 1) THEN Panicked(st)
  ELSE LET subopt_code == data[pos + 1]
           subopt_len == data[pos + 2]
           startoffset == pos + 2
           endoffset == startoffset + subopt_len
       IN  IF startoffset >= Len(data) THEN st
           ELSE IF endoffset > Len(data) THEN st
           ELSE IF ~RangeOk(data, startoffset, endoffset) THEN Panicked(st)
           ELSE SubOptionWalk(data, pos + 2 + subopt_len,
                  SubOption(subopt_code, Slice(data, startoffset, endoffset), st))

\* IsNttBlock without the enterprise check
IsNttBlockAny(data) == TRUE

\* the enterprise check of option 125 (ipv4.rs 279-284)
IsNttBlock(data) == FromBeBytes(Slice(data, 0, 4)) = VENDOR_CODE_NTT

\* option 125 (ipv4.rs 274-347)
Option125(data, st) ==
  IF Len(data) < 5 THEN st
  ELSE IF ~RangeOk(data, 0, 4) THEN Panicked(st)
  ELSE IF ~IsNttBlock(data) THEN st
  ELSE IF ~IndexOk(data, 4) THEN Panicked(st)
  ELSE SubOptionWalk(data, 5, st)

\* the message-type check (ipv4.rs 229-233)
MessageTypeOk(msgtype, expected_msg_type) == msgtype = expected_msg_type

\* one iteration of the option loop (ipv4.rs 216-353)
HandleOpt4(optcode, opt, expected_msg_type, st) ==
  CASE opt.kind = "SubnetMask" -> [st EXCEPT !.subnet_mask = Some(opt.addr)]
    [] opt.kind = "Router" -> [st EXCEPT !.router_addrs = @ \o opt.addrs]
    [] opt.kind = "AddressLeaseTime" -> [st EXCEPT !.addr_time = opt.num]
    [] opt.kind = "MessageType" ->
         IF MessageTypeOk(opt.mtype, expected_msg_type) THEN st
         ELSE [st EXCEPT !.err = "Unexpected message type"]
    [] opt.kind = "ServerIdentifier" -> [st EXCEPT !.server_addr = Some(opt.addr)]
    [] opt.kind = "Renewal" -> [st EXCEPT !.renewal_time = opt.num]
    [] opt.kind = "Rebinding" -> [st EXCEPT !.rebind_time = opt.num]
    [] opt.kind = "ClasslessStaticRoute" ->
         [st EXCEPT !.static_routes = @ \o
            [k \in 1..Len(opt.routes) |->
               [prefix_addr |-> Network(opt.routes[k].net, opt.routes[k].len),
                prefix_len |-> opt.routes[k].len,
                gateway |-> opt.routes[k].gw]]]
    [] opt.kind = "Unknown" ->
         IF optcode = 120 THEN Option120(opt.data, st)
         ELSE IF optcode = 125 THEN Option125(opt.data, st)
         ELSE st
    [] OTHER -> st

\* the option loop, visiting the option map in the order `order`; a
\* `return Err` inside the loop ends it
RECURSIVE OptLoop4(_, _, _, _)
OptLoop4(opts, order, expected_msg_type, st) ==
  IF order = <<>> \/ st.err # "" \/ st.panic THEN st
  ELSE OptLoop4(opts, Tail(order), expected_msg_type,
                HandleOpt4(Head(order), opts[Head(order)], expected_msg_type, st))

\* results of a call
Ok(v) == [tag |-> "Ok", kind |-> "", msg |-> "", val |-> Some(v)]
Err(kind, msg) == [tag |-> "Err", kind |-> kind, msg |-> msg, val |-> None]
Panic(msg) == [tag |-> "Panic", kind |-> "", msg |-> msg, val |-> None]

\* ClientAddr without the test for 0.0.0.0
ClientAddrAlways(yiaddr) == Some(yiaddr)

\* client_addr (ipv4.rs 355)
ClientAddr(yiaddr) == IF yiaddr = Zero4 THEN None ELSE Some(yiaddr)

\* the response built after the loop (ipv4.rs 355-370)
Response4(yiaddr, st) ==
  [client_addr |-> ClientAddr(yiaddr),
   server_addr |-> st.server_addr,
   router_addrs |-> st.router_addrs,
   subnet_mask |-> st.subnet_mask,
   addr_time |-> st.addr_time,
   renewal_time |-> st.renewal_time,
   rebind_time |-> st.rebind_time,
   sip_server_addrs |-> st.sip_server_addrs,
   sip_domain_name |-> st.sip_domain_name,
   sip_main_number |-> st.sip_main_number,
   sip_add_numbers |-> st.sip_add_numbers,
   static_routes |-> st.static_routes]

\* what socket.recv_from + Message::decode hand to recv: an I/O error
\* (the 15 s read timeout), an undecodable datagram, or a decoded message
RxTimeout == [io |-> "timeout"]
RxGarbage == [io |-> "garbage"]
RxMsg(m) == [io |-> "msg", msg |-> m]

\* Dhcp4Client::recv (ipv4.rs 195-371) on the datagram rx, the option
\* map being visited in the order `order`
Recv4Result(rx, expected_msg_type, order) ==
  IF rx.io = "timeout" THEN Err("WouldBlock", "recv_from")
  ELSE IF rx.io = "garbage" THEN Err("InvalidData", "DHCPv4 decoding failed")
  ELSE IF rx.msg.opcode # "BootReply" THEN Err("InvalidData", "Unexpected BOOTP opcode")
  ELSE LET st == OptLoop4(rx.msg.opts, order, expected_msg_type, Locals4)
       IN  IF st.panic THEN Panic("index out of bounds")
           ELSE IF st.err # "" THEN Err("InvalidData", st.err)
           ELSE Ok(Response4(rx.msg.yiaddr, st))

(* ------------------- received DHCPv4 messages ------------------------- *)
Macs == { <<170, 187, 204, 221, 238, 255>>, <<2, 0, 0, 0, 0, 1>> }
Addrs4 == { Zero4, <<192, 0, 2, 10>> }
ServerAddr4 == <<192, 0, 2, 1>>
MsgTypes4 == {"Offer", "Ack", "Nak"}
ExpectedTypes4 == {"Offer", "Ack"}

\* the i-th SIP server address of a received option 120
SipAddr4(i) == <<10, 0, 0, i>>

\* option-120 payloads: empty, or a count byte followed by up to
\* MaxAddrs120 complete addresses and possibly 3 bytes of one more
Payloads120 ==
  { <<>> } \cup
  { <<count>> \o Flatten([i \in 1..k |-> SipAddr4(i)]) \o SubSeq(SipAddr4(k + 1), 1, p) :
      count \in 0..(MaxAddrs120 + 1), k \in 0..MaxAddrs120, p \in {0, 3} }

\* a sub-option [code][len][data]
SubOptBytes(code, data) == <<code, Len(data)>> \o data

\* sub-options a server may put in the enterprise block
SubOpts ==
  { SubOptBytes(201, <<2, 0, 0, 0, 0, 1>>),
    SubOptBytes(202, <<49, 50, 51, 52, 53>>),
    SubOptBytes(202, <<49, 50, 0>>),
    SubOptBytes(202, <<0>>),
    SubOptBytes(203, <<51, 0>>),
    SubOptBytes(203, <<52>>),
    SubOptBytes(204, <<1, 97, 1, 98, 0>>),
    SubOptBytes(204, <<1, 97>>),
    SubOptBytes(204, <<2, 97>>),
    SubOptBytes(7, <<>>) }

RECURSIVE SubOptSeqs(_)
SubOptSeqs(n) == IF n = 0 THEN { <<>> }
                 ELSE SubOptSeqs(n - 1) \cup
                      { so \o rest : so \in SubOpts, rest \in SubOptSeqs(n - 1) }

\* an enterprise block: enterprise number, region length, sub-options
VendorBlock(ent, body) == ToBeBytes(ent) \o <<Len(body)>> \o body

\* option-125 payloads: a block of up to MaxSubOpts sub-options for the
\* provider's or another enterprise, with up to MaxCut bytes missing
Payloads125 ==
  { SubSeq(full, 1, Len(full) - cut) :
      full \in { VendorBlock(ent, body) :
                   ent \in {VENDOR_CODE_NTT, VENDOR_CODE_NTT + 1},
                   body \in SubOptSeqs(MaxSubOpts) },
      cut \in 0..MaxCut }

\* the option codes of received messages
PlainCodes4 == {1, 3, 6, 51, 53, 54, 58, 59, 121, 124}
Codes4 == PlainCodes4 \cup {120, 125}

\* the decoded plain options a received message may hold under each code
Dom4(code) ==
  CASE code = 1 -> { SubnetMaskOpt(<<255, 255, 255, 0>>) }
    [] code = 3 -> { RouterOpt(<< <<192, 0, 2, 254>> >>) }
    [] code = 6 -> { DomainNameServerOpt(<< <<192, 0, 2, 53>> >>) }
    [] code = 51 -> { AddressLeaseTimeOpt(3600) }
    [] code = 53 -> { MessageTypeOpt(t) : t \in MsgTypes4 }
    [] code = 54 -> { ServerIdentifierOpt(ServerAddr4) }
    [] code = 58 -> { RenewalOpt(1800) }
    [] code = 59 -> { RebindingOpt(3150) }
    [] code = 120 -> { UnknownOpt(<<3>> \o SipAddr4(1) \o SipAddr4(2)),
                       UnknownOpt(<<1>> \o SipAddr4(1)) }
    [] code = 121 -> { ClasslessStaticRouteOpt(
                         << [net |-> <<10, 1, 2, 3>>, len |-> 12, gw |-> <<192, 0, 2, 254>>] >>) }
    [] code = 124 -> { UnknownOpt(<<1>>) }
    [] code = 125 -> { UnknownOpt(VendorBlock(VENDOR_CODE_NTT,
                                    SubOptBytes(202, <<49, 50, 51, 52, 53>>))),
                       UnknownOpt(VendorBlock(VENDOR_CODE_NTT,
                                    SubOptBytes(202, <<49, 50, 0>>) \o
                                    SubOptBytes(204, <<1, 97, 1, 98, 0>>))),
                       UnknownOpt(VendorBlock(VENDOR_CODE_NTT + 1,
                                    SubOptBytes(202, <<49, 50, 0>>))) }

\* the option maps (code -> option) with exactly the codes of S
RECURSIVE OptMaps4(_)
OptMaps4(S) ==
  IF S = {} THEN { <<>> }
  ELSE LET c == CHOOSE x \in S : TRUE
       IN  { (c :> v) @@ f : v \in Dom4(c), f \in OptMaps4(S \ {c}) }

Msg4(opcode, yiaddr, opts) == [opcode |-> opcode, yiaddr |-> yiaddr, opts |-> opts]

\* received messages: any opcode and your-IP with up to MaxOpts4 options
GeneralMsgs4 ==
  { Msg4(opcode, yiaddr, opts) :
      opcode \in {"BootRequest", "BootReply"}, yiaddr \in Addrs4,
      opts \in UNION { OptMaps4(S) : S \in { T \in SUBSET Codes4 : Cardinality(T) <= MaxOpts4 } } }

\* received replies holding one vendor option (120 or 125) with any of
\* its payloads, alone or next to one plain option
VendorMsgs4 ==
  { Msg4("BootReply", <<192, 0, 2, 10>>, v @@ o) :
      v \in { 120 :> UnknownOpt(d) : d \in Payloads120 } \cup
            { 125 :> UnknownOpt(d) : d \in Payloads125 },
      o \in { <<>> } \cup UNION { OptMaps4({c}) : c \in {53, 54} } }

Msgs4 == GeneralMsgs4 \cup VendorMsgs4

\* byte strings over the alphabet A of length up to n
RECURSIVE ByteSeqs(_, _)
ByteSeqs(A, n) ==
  IF n = 0 THEN { <<>> }
  ELSE LET shorter == ByteSeqs(A, n - 1)
       IN  shorter \cup { <<b>> \o t : b \in A, t \in { u \in shorter : Len(u) = n - 1 } }

\* the bytes of arbitrary vendor payloads: lengths and counts 0, 1, 2,
\* a letter, the sub-option codes 202 and 204, and 255
RawBytes == {0, 1, 2, 97, 202, 204, 255}
\* the bytes of sub-option 204 data: label lengths, a letter, a byte that
\* is not UTF-8
LabelBytes == {0, 1, 2, 97, 255}

\* arbitrary option-120 payloads of up to MaxRaw bytes
Raw120 == ByteSeqs(RawBytes, MaxRaw)

\* option-125 payloads: a header cut short, or the provider's enterprise
\* number, any region length and up to MaxRaw arbitrary bytes
Raw125 ==
  { SubSeq(ToBeBytes(VENDOR_CODE_NTT), 1, k) : k \in 0..4 } \cup
  { ToBeBytes(VENDOR_CODE_NTT) \o <<optlen>> \o t :
      optlen \in {0, 255}, t \in ByteSeqs(RawBytes, MaxRaw) }

\* option-125 payloads holding one sub-option 204 with up to MaxLabelData
\* arbitrary bytes of data
Labels204 ==
  { VendorBlock(VENDOR_CODE_NTT, SubOptBytes(204, d)) :
      d \in ByteSeqs(LabelBytes, MaxLabelData) }

\* received replies holding one vendor option with an arbitrary payload,
\* one family per kind of payload
RawMsgs4 ==
  << { Msg4("BootReply", <<192, 0, 2, 10>>, 120 :> UnknownOpt(d)) : d \in Raw120 },
     { Msg4("BootReply", <<192, 0, 2, 10>>, 125 :> UnknownOpt(d)) : d \in Raw125 },
     { Msg4("BootReply", <<192, 0, 2, 10>>, 125 :> UnknownOpt(d)) : d \in Labels204 } >>

(* ===================== DHCPv6: Dhcp6Client::recv ====================== *)
\* a decoded dhcproto::v6::DhcpOption (one record shape for every variant)
Opt6(kind, code, id, status, list, num, t1, t2, opts, data) ==
  [kind |-> kind, code |-> code, id |-> id, status |-> status, list |-> list,
   num |-> num, t1 |-> t1, t2 |-> t2, opts |-> opts, data |-> data]
ClientIdOpt(id) == Opt6("ClientId", 1, id, "", <<>>, 0, 0, 0, <<>>, <<>>)
ServerIdOpt(id) == Opt6("ServerId", 2, id, "", <<>>, 0, 0, 0, <<>>, <<>>)
OROOpt(codes) == Opt6("ORO", 6, <<>>, "", codes, 0, 0, 0, <<>>, <<>>)
PreferenceOpt(n) == Opt6("Preference", 7, <<>>, "", <<>>, n, 0, 0, <<>>, <<>>)
ElapsedTimeOpt(n) == Opt6("ElapsedTime", 8, <<>>, "", <<>>, n, 0, 0, <<>>, <<>>)
StatusCodeOpt(status) == Opt6("StatusCode", 13, <<>>, status, <<>>, 0, 0, 0, <<>>, <<>>)
VendorClassOpt(num, data) == Opt6("VendorClass", 16, <<>>, "", data, num, 0, 0, <<>>, <<>>)
DomainNameServersOpt(srv) == Opt6("DomainNameServers", 23, <<>>, "", srv, 0, 0, 0, <<>>, <<>>)
DomainSearchListOpt(l) == Opt6("DomainSearchList", 24, <<>>, "", l, 0, 0, 0, <<>>, <<>>)
\* num holds the IA id
IAPDOpt(id, t1, t2, opts) == Opt6("IAPD", 25, <<>>, "", <<>>, id, t1, t2, opts, <<>>)
Unknown6Opt(code, data) == Opt6("Unknown", code, <<>>, "", <<>>, 0, 0, 0, <<>>, data)

\* an option nested in an IA-PD container
Inner6(kind, code, status, prefix_ip, prefix_len, preferred_lifetime, valid_lifetime, opts) ==
  [kind |-> kind, code |-> code, status |-> status, prefix_ip |-> prefix_ip,
   prefix_len |-> prefix_len, preferred_lifetime |-> preferred_lifetime,
   valid_lifetime |-> valid_lifetime, opts |-> opts]
Zero6 == [k \in 1..16 |-> 0]
\* opts: the status codes nested in the IA-Prefix
IAPrefixOpt(preferred_lifetime, valid_lifetime, prefix_ip, prefix_len, opts) ==
  Inner6("IAPrefix", 26, "", prefix_ip, prefix_len, preferred_lifetime, valid_lifetime, opts)
InnerStatusCodeOpt(status) == Inner6("StatusCode", 13, status, Zero6, 0, 0, 0, <<>>)

SipServerA == 22
SntpServers == 31

\* Dhcp6Client::local_duid (ipv6.rs 97-102)
LocalDuid(mac) == <<0, 3, 0, 1>> \o mac

\* DuidMismatch comparing the DUID type and hardware type only
DuidMismatchHeaderOnly(id, duid) == SubSeq(id, 1, 4) # SubSeq(duid, 1, 4)

\* the ClientId comparison (ipv6.rs 200)
DuidMismatch(id, duid) == id # duid

\* Name::to_ascii of a decoded (fully qualified) domain name
ToAscii(name) == Flatten([k \in 1..Len(name) |-> name[k] \o <<46>>])

\* Addr6Loop stopping when the next group ends at the end of the payload
RECURSIVE Addr6LoopExclusive(_, _, _)
Addr6LoopExclusive(data, i, addrs) ==
  LET start == i * 16
      end == start + 16
  IN  IF end >= Len(data) THEN addrs
      ELSE Addr6LoopExclusive(data, i + 1, Append(addrs, Slice(data, start, end)))

\* the 16-byte address loops (ipv6.rs 253-262, 265-274)
RECURSIVE Addr6Loop(_, _, _)
Addr6Loop(data, i, addrs) ==
  LET start == i * 16
      end == start + 16
  IN  IF end > Len(data) THEN addrs
      ELSE Addr6Loop(data, i + 1, Append(addrs, Slice(data, start, end)))

\* the locals of recv before the option loop (ipv6.rs 183-194)
Locals6 ==
  [domain_search_list |-> <<>>, nameserver_addrs |-> <<>>,
   sntp_server_addrs |-> <<>>, sip_server_addrs |-> <<>>,
   client_id |-> None, server_id |-> None, t1 |-> 0, t2 |-> 0,
   valid_lifetime |-> 0, preferred_lifetime |-> 0,
   prefix |-> None, prefix_len |-> None, errkind |-> "", err |-> ""]

\* one option of an IA-PD container (ipv6.rs 235-243)
HandleInner6(opt, st) ==
  IF opt.kind = "IAPrefix"
  THEN [st EXCEPT !.valid_lifetime = opt.valid_lifetime,
                  !.preferred_lifetime = opt.preferred_lifetime,
                  !.prefix = Some(opt.prefix_ip),
                  !.prefix_len = Some(opt.prefix_len)]
  ELSE st

\* the loop over the options of an IA-PD container (ipv6.rs 233-244)
RECURSIVE InnerLoop6(_, _)
InnerLoop6(opts, st) ==
  IF opts = <<>> THEN st ELSE InnerLoop6(Tail(opts), HandleInner6(Head(opts), st))

\* the StatusCode arm (ipv6.rs 210-217)
StatusFails(status) == status # "Success"

\* one iteration of the option loop (ipv6.rs 195-282)
HandleOpt6(opt, duid, st) ==
  CASE opt.kind = "ClientId" ->
         IF DuidMismatch(opt.id, duid)
         THEN [st EXCEPT !.errkind = "InvalidData", !.err = "client DUID mismatch"]
         ELSE [st EXCEPT !.client_id = Some(opt.id)]
    [] opt.kind = "ServerId" -> [st EXCEPT !.server_id = Some(opt.id)]
    [] opt.kind = "StatusCode" ->
         IF StatusFails(opt.status)
         THEN [st EXCEPT !.errkind = "ConnectionAborted", !.err = "DHCP error"]
         ELSE st
    [] opt.kind = "DomainNameServers" -> [st EXCEPT !.nameserver_addrs = @ \o opt.list]
    [] opt.kind = "DomainSearchList" ->
         [st EXCEPT !.domain_search_list =
            @ \o [k \in 1..Len(opt.list) |-> ToAscii(opt.list[k])]]
    [] opt.kind = "IAPD" ->
         InnerLoop6(opt.opts, [st EXCEPT !.t1 = opt.t1, !.t2 = opt.t2])
    [] opt.kind = "Unknown" ->
         IF opt.code = SipServerA
         THEN [st EXCEPT !.sip_server_addrs = Addr6Loop(opt.data, 0, @)]
         ELSE IF opt.code = SntpServers
         THEN [st EXCEPT !.sntp_server_addrs = Addr6Loop(opt.data, 0, @)]
         ELSE st
    [] OTHER -> st

\* the option loop in the order of the decoded option list
RECURSIVE OptLoop6(_, _, _)
OptLoop6(opts, duid, st) ==
  IF opts = <<>> \/ st.err # "" THEN st
  ELSE OptLoop6(Tail(opts), duid, HandleOpt6(Head(opts), duid, st))

\* BuildPd returning a zero-filled prefix when none was found
BuildPdZeroed(st) ==
  Some([prefix |-> IF st.prefix = None THEN Zero6 ELSE st.prefix[1],
        prefix_len |-> IF st.prefix_len = None THEN 0 ELSE st.prefix_len[1],
        preferred_lifetime |-> st.preferred_lifetime,
        valid_lifetime |-> st.valid_lifetime,
        t1 |-> st.t1, t2 |-> st.t2])

\* pd (ipv6.rs 284-296)
BuildPd(st) ==
  IF st.prefix = None \/ st.prefix_len = None THEN None
  ELSE Some([prefix |-> st.prefix[1], prefix_len |-> st.prefix_len[1],
             preferred_lifetime |-> st.preferred_lifetime,
             valid_lifetime |-> st.valid_lifetime,
             t1 |-> st.t1, t2 |-> st.t2])

\* the response (ipv6.rs 298-307); unwrap() of a missing id panics
Response6(st) ==
  IF st.client_id = None \/ st.server_id = None
  THEN Panic("unwrap on None")
  ELSE Ok([client_id |-> st.client_id[1],
           server_id |-> st.server_id[1],
           pd |-> BuildPd(st),
           nameserver_addrs |-> st.nameserver_addrs,
           domain_search_list |-> st.domain_search_list,
           sip_server_addrs |-> st.sip_server_addrs,
           sntp_server_addrs |-> st.sntp_server_addrs])

\* Dhcp6Client::recv (ipv6.rs 176-308) on the datagram rx
Recv6Result(rx, expected_msg_type, mac) ==
  IF rx.io = "timeout" THEN Err("WouldBlock", "recv_from")
  ELSE IF rx.io = "garbage" THEN Err("InvalidData", "DHCPv6 decoding failed")
  ELSE IF rx.msg.msg_type # expected_msg_type
    THEN Err("InvalidData", "Unexpected message type")
  ELSE LET st == OptLoop6(rx.msg.opts, LocalDuid(mac), Locals6)
       IN  IF st.err # "" THEN Err(st.errkind, st.err)
           ELSE Response6(st)

(* ------------------- received DHCPv6 messages ------------------------- *)
MsgTypes6 == {"Advertise", "Reply"}
ServerDuid == <<0, 1, 0, 1, 9, 9>>
Prefix6(i) == [k \in 1..16 |-> IF k = 1 THEN 32 ELSE IF k = 2 THEN 1 ELSE IF k = 6 THEN i ELSE 0]
Addr6(i) == [k \in 1..16 |-> IF k = 1 THEN 254 ELSE IF k = 2 THEN 128 ELSE IF k = 16 THEN i ELSE 0]

\* ClientId values on the wire: the DUID of either MAC, and one cut short
ClientIds6 == { LocalDuid(m) : m \in Macs } \cup
              { SubSeq(LocalDuid(m), 1, 9) : m \in { <<2, 0, 0, 0, 0, 1>> } }

\* the options an IA-PD container may hold
InnerOpts6 ==
  { InnerStatusCodeOpt("NoPrefixAvail"),
    IAPrefixOpt(100, 200, Prefix6(1), 56, <<>>),
    IAPrefixOpt(300, 400, Prefix6(2), 60, <<"NoPrefixAvail">>) }

\* option lists as the decoder leaves them: sorted by option code, options
\* of one code in any order
RECURSIVE SortedLists(_, _, _)
SortedLists(pool, n, mincode) ==
  IF n = 0 THEN { <<>> }
  ELSE { <<>> } \cup
       UNION { { <<o>> \o rest : rest \in SortedLists(pool, n - 1, o.code) } :
                 o \in { x \in pool : x.code >= mincode } }

\* the options of received messages in general
GeneralOpts6 ==
  { ClientIdOpt(id) : id \in ClientIds6 } \cup
  { ServerIdOpt(ServerDuid),
    PreferenceOpt(0),
    StatusCodeOpt("Success"),
    StatusCodeOpt("NoPrefixAvail"),
    DomainNameServersOpt(<<Addr6(53)>>),
    DomainSearchListOpt(<< << <<97>>, <<98, 99>> >> >>),
    IAPDOpt(7, 1, 2, <<>>),
    IAPDOpt(7, 1, 2, <<IAPrefixOpt(100, 200, Prefix6(1), 56, <<>>)>>),
    IAPDOpt(7, 3, 4, <<InnerStatusCodeOpt("NoPrefixAvail")>>),
    Unknown6Opt(SipServerA, Addr6(1)),
    Unknown6Opt(SipServerA, Addr6(1) \o <<254, 128, 0>>),
    Unknown6Opt(SntpServers, Addr6(2)),
    Unknown6Opt(99, <<1>>) }

Msg6(msg_type, opts) == [msg_type |-> msg_type, opts |-> opts]

\* received messages with up to MaxOpts6 options
GeneralMsgs6 ==
  { Msg6(t, opts) : t \in MsgTypes6, opts \in SortedLists(GeneralOpts6, MaxOpts6, 0) }

\* IA-PD containers with up to MaxInner nested options
IaPds6 ==
  { IAPDOpt(7, t[1], t[2], inner) :
      t \in { <<1, 2>>, <<3, 4>> }, inner \in SortedLists(InnerOpts6, MaxInner, 0) }

\* received messages with both ids and one or two IA-PD containers
PdMsgs6 ==
  { Msg6(t, <<ClientIdOpt(LocalDuid(m)), ServerIdOpt(ServerDuid)>> \o pds) :
      t \in MsgTypes6, m \in Macs,
      pds \in { <<a>> : a \in IaPds6 } \cup { <<a, b>> : a \in IaPds6, b \in IaPds6 } }

Msgs6 == GeneralMsgs6 \cup PdMsgs6

\* a SIP-server-address or SNTP-server option with a payload of len bytes,
\* every byte telling its option and its position
AddrPayload(code, len) == [k \in 1..len |-> (code + k) % 256]
AddrOpts6 ==
  { Unknown6Opt(code, AddrPayload(code, len)) :
      code \in {SipServerA, SntpServers}, len \in 0..MaxAddrBytes }

\* received messages with both ids and one such option, or two of them
AddrMsgs6 ==
  << { Msg6(t, <<ClientIdOpt(LocalDuid(m)), ServerIdOpt(ServerDuid), a>>) :
         t \in MsgTypes6, m \in Macs, a \in AddrOpts6 },
     { Msg6("Reply", <<ClientIdOpt(LocalDuid(m)), ServerIdOpt(ServerDuid), p[1], p[2]>>) :
         m \in Macs, p \in { q \in AddrOpts6 \X AddrOpts6 : q[1].code <= q[2].code } } >>

(* ====================== building and sending ========================= *)
\* dhcproto v4 Message::new: a BootRequest for an Ethernet client
NewMessage4(ciaddr, yiaddr, siaddr, giaddr, chaddr) ==
  [opcode |-> "BootRequest", htype |-> "Eth", broadcast |-> FALSE,
   ciaddr |-> ciaddr, yiaddr |-> yiaddr, siaddr |-> siaddr, giaddr |-> giaddr,
   chaddr |-> chaddr, opts |-> <<>>]

\* msg.opts_mut().insert(..): the option map holds one option per code;
\* an option is kept as the payload bytes it is encoded to
Insert4(msg, code, payload) == [msg EXCEPT !.opts = (code :> payload) @@ @]

SetBroadcast(msg) == [msg EXCEPT !.broadcast = TRUE]

U16Be(n) == << (n \div 256) % 256, n % 256 >>

MessageTypeCode(t) ==
  CASE t = "Discover" -> 1 [] t = "Offer" -> 2 [] t = "Request" -> 3
    [] t = "Decline" -> 4 [] t = "Ack" -> 5 [] t = "Nak" -> 6

MAX_MESSAGE_SIZE == 1200

\* DiscoverMsg asking for the DNS servers as well
DiscoverMsgWithDns(mac) ==
  LET m0 == SetBroadcast(NewMessage4(Zero4, Zero4, Zero4, Zero4, mac))
      m1 == Insert4(m0, 53, <<MessageTypeCode("Discover")>>)
      m2 == Insert4(m1, 55, <<1, 3, 6>>)
      m3 == Insert4(m2, 57, U16Be(MAX_MESSAGE_SIZE))
  IN  Insert4(m3, 61, mac)

\* the message built by Dhcp4Client::discover (ipv4.rs 96-116)
DiscoverMsg(mac) ==
  LET m0 == SetBroadcast(NewMessage4(Zero4, Zero4, Zero4, Zero4, mac))
      m1 == Insert4(m0, 53, <<MessageTypeCode("Discover")>>)
      m2 == Insert4(m1, 55, <<1, 3>>)
      m3 == Insert4(m2, 57, U16Be(MAX_MESSAGE_SIZE))
  IN  Insert4(m3, 61, mac)

ReqTypes == {"Select", "InitReboot", "Renew", "Rebind"}

\* RequestHeader with the Renew/Rebind address in the your-IP field
RequestHeaderYiaddr(mac, req_type, req_ip, server_id) ==
  IF req_type = "Select" THEN NewMessage4(Zero4, Zero4, server_id, Zero4, mac)
  ELSE IF req_type = "InitReboot" THEN NewMessage4(Zero4, Zero4, Zero4, Zero4, mac)
  ELSE NewMessage4(Zero4, req_ip, Zero4, Zero4, mac)

\* the header of a Request (ipv4.rs 122-150)
RequestHeader(mac, req_type, req_ip, server_id) ==
  IF req_type = "Select" THEN NewMessage4(Zero4, Zero4, server_id, Zero4, mac)
  ELSE IF req_type = "InitReboot" THEN NewMessage4(Zero4, Zero4, Zero4, Zero4, mac)
  ELSE NewMessage4(req_ip, Zero4, Zero4, Zero4, mac)

\* RequestVendorData without the length byte
RequestVendorDataNoLen(mac) == ToBeBytes(210) \o <<7>> \o mac

\* the enterprise block of a Request (ipv4.rs 177-181)
RequestVendorData(mac) == ToBeBytes(210) \o <<7, 6>> \o mac

\* the code the enterprise block is sent under (ipv4.rs 182)
RequestVendorCode == 124

\* RequestedIpAddress is inserted (ipv4.rs 158)
WithRequestedIp(req_type) == req_type = "Select" \/ req_type = "InitReboot"

\* WithServerId inserting the ServerIdentifier for InitReboot as well
WithServerIdInitReboot(req_type) == req_type = "Select" \/ req_type = "InitReboot"

\* ServerIdentifier is inserted (ipv4.rs 162)
WithServerId(req_type) == req_type = "Select"

\* the opts_mut().insert calls of Dhcp4Client::request in program order, each
\* with the option code and the payload the option is encoded to
\* (ipv4.rs 156-183)
RequestInserts(mac, req_type, req_ip, server_id) ==
  << [code |-> 53, payload |-> <<MessageTypeCode("Request")>>] >>
  \o (IF WithRequestedIp(req_type)
      THEN << [code |-> 50, payload |-> req_ip] >> ELSE <<>>)
  \o (IF WithServerId(req_type)
      THEN << [code |-> 54, payload |-> server_id] >> ELSE <<>>)
  \o << [code |-> 55, payload |-> <<1, 3, 120, 121, 125>>],
        [code |-> 57, payload |-> U16Be(MAX_MESSAGE_SIZE)],
        [code |-> 61, payload |-> mac],
        [code |-> RequestVendorCode, payload |-> RequestVendorData(mac)] >>

RECURSIVE InsertAll4(_, _)
InsertAll4(msg, ins) ==
  IF ins = <<>> THEN msg
  ELSE InsertAll4(Insert4(msg, Head(ins).code, Head(ins).payload), Tail(ins))

\* the message built by Dhcp4Client::request (ipv4.rs 122-183)
RequestMsg(mac, req_type, req_ip, server_id) ==
  InsertAll4(SetBroadcast(RequestHeader(mac, req_type, req_ip, server_id)),
             RequestInserts(mac, req_type, req_ip, server_id))

\* RequestDst sending a Rebind to the server as well
RequestDstRebindToo(req_type, server_id) ==
  IF req_type = "Renew" \/ req_type = "Rebind" THEN Some(server_id) ELSE None

\* the destination of a Request (ipv4.rs 185-190)
RequestDst(req_type, server_id) == IF req_type = "Renew" THEN Some(server_id) ELSE None

\* n zero bytes
Zeros(n) == [k \in 1..n |-> 0]

\* the options as written to the wire: [code][len][payload] for each option
\* in the order the option map is visited, then End (255)
RECURSIVE EncodeOpts4(_, _)
EncodeOpts4(opts, order) ==
  IF order = <<>> THEN <<255>>
  ELSE <<Head(order), Len(opts[Head(order)])>> \o opts[Head(order)]
       \o EncodeOpts4(opts, Tail(order))

\* Message::encode of dhcproto v4 (ipv4.rs 72-74): the fixed BOOTP header
\* (op, htype, hlen, hops, xid, secs, flags, ciaddr, yiaddr, siaddr, giaddr,
\* chaddr[16], sname[64], file[128]), the magic cookie and the options; the
\* transaction id is written as zeros
Encode4(msg, order) ==
  << IF msg.opcode = "BootRequest" THEN 1 ELSE 2,
     IF msg.htype = "Eth" THEN 1 ELSE 0,
     Len(msg.chaddr), 0 >>
  \o Zeros(4) \o Zeros(2)
  \o << IF msg.broadcast THEN 128 ELSE 0, 0 >>
  \o msg.ciaddr \o msg.yiaddr \o msg.siaddr \o msg.giaddr
  \o msg.chaddr \o Zeros(16 - Len(msg.chaddr))
  \o Zeros(64) \o Zeros(128)
  \o <<99, 130, 83, 99>>
  \o EncodeOpts4(msg.opts, order)

\* the options read back from the wire: Pad (0) is skipped, End (255) or
\* a truncated option ends the list
RECURSIVE DecodeOpts4(_, _, _)
DecodeOpts4(buf, i, opts) ==
  IF i > Len(buf) \/ buf[i] = 255 THEN opts
  ELSE IF buf[i] = 0 THEN DecodeOpts4(buf, i + 1, opts)
  ELSE IF i + 1 > Len(buf) \/ i + 1 + buf[i + 1] > Len(buf) THEN opts
  ELSE DecodeOpts4(buf, i + 2 + buf[i + 1],
                   (buf[i] :> SubSeq(buf, i + 2, i + 1 + buf[i + 1])) @@ opts)

\* Message::decode of dhcproto v4 (ipv4.rs 90), as the peer reads the
\* datagram
Decode4(buf) ==
  [opcode |-> IF buf[1] = 1 THEN "BootRequest" ELSE
              IF buf[1] = 2 THEN "BootReply" ELSE "Unknown",
   htype |-> IF buf[2] = 1 THEN "Eth" ELSE "Unknown",
   broadcast |-> buf[11] >= 128,
   ciaddr |-> SubSeq(buf, 13, 16), yiaddr |-> SubSeq(buf, 17, 20),
   siaddr |-> SubSeq(buf, 21, 24), giaddr |-> SubSeq(buf, 25, 28),
   chaddr |-> SubSeq(buf, 29, 28 + buf[3]),
   opts |-> DecodeOpts4(buf, 241, <<>>)]

\* the set S in ascending order
RECURSIVE Ascending(_)
Ascending(S) ==
  IF S = {} THEN <<>>
  ELSE LET m == CHOOSE x \in S : \A y \in S : x <= y
       IN  <<m>> \o Ascending(S \ {m})

\* orders in which the option map of a message being encoded is visited:
\* the ascending order, each rotation of it, and the descending order
WireOrders(S) ==
  LET a == Ascending(S)
      n == Len(a)
  IN  { SubSeq(a, k + 1, n) \o SubSeq(a, 1, k) : k \in 0..n } \cup
      { [i \in 1..n |-> a[n + 1 - i]] }

\* Dhcp4Client::encode_send (ipv4.rs 71-84): the datagram handed to
\* send_to, the option map being written in the order `order`
Send4(msg, server_ip, order) ==
  [dst |-> IF server_ip = None THEN Broadcast4 ELSE server_ip[1],
   port |-> SERVER_PORT4, msg |-> msg, buf |-> Encode4(msg, order)]

\* ff02::1:2
AllDhcpAgents == [k \in 1..16 |-> IF k = 1 THEN 255 ELSE IF k = 2 THEN 2
                                   ELSE IF k = 14 THEN 1 ELSE IF k = 16 THEN 2 ELSE 0]

\* Dhcp6Client::encode_send (ipv6.rs 83-89)
Send6(msg) == [dst |-> AllDhcpAgents, port |-> SERVER_PORT6, msg |-> msg]

\* msg.opts_mut().insert(..) of dhcproto v6: the list stays sorted by code
RECURSIVE InsertSorted(_, _)
InsertSorted(opts, opt) ==
  IF opts = <<>> THEN <<opt>>
  ELSE IF Head(opts).code < opt.code THEN <<Head(opts)>> \o InsertSorted(Tail(opts), opt)
  ELSE <<opt>> \o opts
Insert6(msg, opt) == [msg EXCEPT !.opts = InsertSorted(@, opt)]

U16_MAX == 65535

\* ElapsedField keeping the low 16 bits of the milliseconds
ElapsedFieldWrapping(ms) == ms % (U16_MAX + 1)

\* elapsed.as_millis().try_into().unwrap_or(0) (ipv6.rs 108, 133)
ElapsedField(ms) == IF ms <= U16_MAX THEN ms ELSE 0

\* the message built by Dhcp6Client::solicit_pd (ipv6.rs 105-114)
SolicitMsg(mac, elapsed, ia_id) ==
  LET m0 == Msg6("Solicit", <<>>)
      m1 == Insert6(m0, ClientIdOpt(LocalDuid(mac)))
      m2 == Insert6(m1, ElapsedTimeOpt(ElapsedField(elapsed)))
  IN  Insert6(m2, IAPDOpt(ia_id, 0, 0, <<>>))

\* the message built by Dhcp6Client::request_pd (ipv6.rs 120-161)
RequestPdMsg(mac, elapsed, ia_id, server_id, pd) ==
  LET m0 == Msg6("Request", <<>>)
      m1 == Insert6(m0, ClientIdOpt(LocalDuid(mac)))
      m2 == Insert6(m1, ServerIdOpt(server_id))
      m3 == Insert6(m2, OROOpt(<<25, SipServerA, SntpServers, 23, 24>>))
      m4 == Insert6(m3, ElapsedTimeOpt(ElapsedField(elapsed)))
      m5 == Insert6(m4, VendorClassOpt(VENDOR_CODE_NTT, <<mac>>))
      prefix == IAPrefixOpt(pd.preferred_lifetime, pd.valid_lifetime,
                            pd.prefix, pd.prefix_len, <<"Success">>)
  IN  Insert6(m5, IAPDOpt(ia_id, 0, 0, <<prefix>>))

\* arguments the caller may pass
ElapsedMs == {0, 1500, 65535, 65536, 70000}
IaIds == {7, 8}
PdPrefixes ==
  { [prefix |-> Prefix6(1), prefix_len |-> 56, preferred_lifetime |-> 100,
     valid_lifetime |-> 200, t1 |-> 1, t2 |-> 2],
    [prefix |-> Prefix6(2), prefix_len |-> 60, preferred_lifetime |-> 300,
     valid_lifetime |-> 400, t1 |-> 3, t2 |-> 4] }

\* the outcome of socket.send_to
SendOutcomes == {"sent", "failed"}

(* ============================== actions =============================== *)
\* the socket operations of a sending call: encode_send calls send_to once
\* (ipv4.rs 77/80, ipv6.rs 87)
SendIo(outcome) == <<"send_to">>

\* RecvIo reading again after a timeout
RecvIoRetry(rx) ==
  IF rx.io = "timeout" THEN <<"recv_from", "recv_from">> ELSE <<"recv_from">>

\* the socket operations of a recv call: recv_msg calls recv_from once
\* (ipv4.rs 88, ipv6.rs 169)
RecvIo(rx) == <<"recv_from">>

\* the effect of encode_send(..)?; Ok(()) on the state
SendStep(dgram, outcome) ==
  /\ io' = SendIo(outcome)
  /\ IF outcome = "sent"
     THEN sent' = Some(dgram) /\ ret' = Some(Ok(<<>>))
     ELSE sent' = None /\ ret' = Some(Err("WouldBlock", "send_to"))

\* Dhcp4Client::discover (ipv4.rs 95-119)
DoDiscover(outcome, order) ==
  /\ call' = Some([op |-> "discover"])
  /\ SendStep(Send4(DiscoverMsg(local_if_mac), None, order), outcome)

\* Dhcp4Client::request (ipv4.rs 121-193)
DoRequest(req_type, req_ip, server_id, outcome, order) ==
  /\ call' = Some([op |-> "request", req_type |-> req_type,
                   req_ip |-> req_ip, server_id |-> server_id])
  /\ SendStep(Send4(RequestMsg(local_if_mac, req_type, req_ip, server_id),
                    RequestDst(req_type, server_id), order), outcome)

\* Dhcp4Client::recv(expected_msg_type) (ipv4.rs 195-371)
DoRecv4(expected_msg_type, rx, order) ==
  /\ call' = Some([op |-> "recv4", expected |-> expected_msg_type, rx |-> rx])
  /\ ret' = Some(Recv4Result(rx, expected_msg_type, order))
  /\ io' = RecvIo(rx)
  /\ sent' = None

\* Dhcp6Client::solicit_pd (ipv6.rs 104-117)
DoSolicitPd(elapsed, ia_id, outcome) ==
  /\ call' = Some([op |-> "solicit_pd", elapsed |-> elapsed, ia_id |-> ia_id])
  /\ SendStep(Send6(SolicitMsg(local_if_mac, elapsed, ia_id)), outcome)

\* Dhcp6Client::request_pd (ipv6.rs 119-165)
DoRequestPd(elapsed, ia_id, server_id, pd, outcome) ==
  /\ call' = Some([op |-> "request_pd", elapsed |-> elapsed, ia_id |-> ia_id,
                   server_id |-> server_id, pd |-> pd])
  /\ SendStep(Send6(RequestPdMsg(local_if_mac, elapsed, ia_id, server_id, pd)), outcome)

\* Dhcp6Client::recv(expected_msg_type) (ipv6.rs 176-308)
DoRecv6(expected_msg_type, rx) ==
  /\ call' = Some([op |-> "recv6", expected |-> expected_msg_type, rx |-> rx])
  /\ ret' = Some(Recv6Result(rx, expected_msg_type, local_if_mac))
  /\ io' = RecvIo(rx)
  /\ sent' = None

(* ---- the driver API called in any order by any caller ---------------- *)
Idle == call = None /\ sent = None /\ ret = None /\ io = <<>>

Init ==
  /\ local_if_mac \in Macs
  /\ call = None
  /\ sent = None
  /\ ret = None
  /\ io = <<>>
  /\ pc = "api"
  /\ res = None
  /\ ia = None
  /\ steps = <<>>
  /\ local_ll_addr = Addr6(1)
  /\ loop = None

Discover ==
  /\ Idle
  /\ \E outcome \in SendOutcomes :
     \E order \in WireOrders(DOMAIN DiscoverMsg(local_if_mac).opts) :
       DoDiscover(outcome, order)
  /\ UNCHANGED <<local_if_mac, local_ll_addr, loop, demo>>

Request ==
  /\ Idle
  /\ \E req_type \in ReqTypes, req_ip \in Addrs4, server_id \in {Zero4, ServerAddr4},
        outcome \in SendOutcomes :
     \E order \in WireOrders(DOMAIN RequestMsg(local_if_mac, req_type, req_ip, server_id).opts) :
       DoRequest(req_type, req_ip, server_id, outcome, order)
  /\ UNCHANGED <<local_if_mac, local_ll_addr, loop, demo>>

Recv4 ==
  /\ Idle
  /\ \E expected_msg_type \in ExpectedTypes4 :
       \/ \E rx \in {RxTimeout, RxGarbage} : DoRecv4(expected_msg_type, rx, <<>>)
       \/ \E m \in Msgs4 : \E order \in Orders(DOMAIN m.opts) :
            DoRecv4(expected_msg_type, RxMsg(m), order)
  /\ UNCHANGED <<local_if_mac, local_ll_addr, loop, demo>>

SolicitPd ==
  /\ Idle
  /\ \E elapsed \in ElapsedMs, ia_id \in IaIds, outcome \in SendOutcomes :
       DoSolicitPd(elapsed, ia_id, outcome)
  /\ UNCHANGED <<local_if_mac, local_ll_addr, loop, demo>>

RequestPd ==
  /\ Idle
  /\ \E elapsed \in ElapsedMs, ia_id \in IaIds, pd \in PdPrefixes, outcome \in SendOutcomes :
       DoRequestPd(elapsed, ia_id, ServerDuid, pd, outcome)
  /\ UNCHANGED <<local_if_mac, local_ll_addr, loop, demo>>

Recv6 ==
  /\ Idle
  /\ \E expected_msg_type \in MsgTypes6 :
     \E family \in 0..Len(AddrMsgs6) :
     \E rx \in IF family = 0
               THEN {RxTimeout, RxGarbage} \cup { RxMsg(m) : m \in Msgs6 }
               ELSE { RxMsg(m) : m \in AddrMsgs6[family] } :
       DoRecv6(expected_msg_type, rx)
  /\ UNCHANGED <<local_if_mac, local_ll_addr, loop, demo>>

\* the caller takes the result of the call (dhcp-demo.rs 41-48, 60-67);
\* the handle is as it was
Return ==
  /\ pc = "api"
  /\ call # None
  /\ call' = None
  /\ sent' = None
  /\ ret' = None
  /\ io' = <<>>
  /\ UNCHANGED <<local_if_mac, local_ll_addr, loop, demo>>

Next == Discover \/ Request \/ Recv4 \/ SolicitPd \/ RequestPd \/ Recv6 \/ Return

Spec == Init /\ [][Next]_vars

(* ---- recv on replies that carry vendor options ------------------------ *)
VendorInit == Init /\ local_if_mac = <<170, 187, 204, 221, 238, 255>>

RecvVendor4 ==
  /\ Idle
  /\ \E expected_msg_type \in ExpectedTypes4 :
     \E family \in 0..Len(RawMsgs4) :
     \E m \in IF family = 0 THEN VendorMsgs4 ELSE RawMsgs4[family] :
     \E order \in Orders(DOMAIN m.opts) :
       DoRecv4(expected_msg_type, RxMsg(m), order)
  /\ UNCHANGED <<local_if_mac, local_ll_addr, loop, demo>>

VendorNext == RecvVendor4 \/ Return

VendorSpec == VendorInit /\ [][VendorNext]_vars

(* ---- the walks of option 125, one loop iteration per step ------------- *)
\* the bytes of the walked regions: lengths 0..3 (also codes without an
\* arm) and the sub-option code 204
WalkBytes == {0, 1, 2, 3, 204}
\* enterprise-210 blocks with a region of up to MaxWalk bytes
WalkPayloads ==
  { VendorBlock(VENDOR_CODE_NTT, t) : t \in ByteSeqs(WalkBytes, MaxWalk) }

WalkInit == Init /\ local_if_mac = <<170, 187, 204, 221, 238, 255>>

\* NextPos leaving out the two header bytes of the sub-option
NextPosNoHeader(pos, subopt_len) == pos + subopt_len

\* pos += 2 + subopt_len (ipv4.rs 345)
NextPos(pos, subopt_len) == pos + 2 + subopt_len

\* option 125 passes its checks and sets pos = 5 (ipv4.rs 275-289)
WalkEnter ==
  /\ Idle
  /\ loop = None
  /\ \E data \in WalkPayloads :
       /\ ~(Len(data) < 5)
       /\ IsNttBlock(data)
       /\ loop' = Some([data |-> data, pos |-> 5, at |-> "walk", st |-> Locals4,
                        subopt_data |-> <<>>, subopt_len |-> 0,
                        i |-> 0, labels |-> <<>>])
  /\ UNCHANGED <<local_if_mac, local_ll_addr, call, sent, ret, io, demo>>

\* one test of `while (pos + 1) < data.len()` and the body it guards, up to
\* the match on the sub-option code (ipv4.rs 290-320, 343-345)
WalkIter ==
  /\ loop # None
  /\ loop[1].at = "walk"
  /\ LET l == loop[1]
         data == l.data
         pos == l.pos
         subopt_code == data[pos + 1]
         subopt_len == data[pos + 2]
         startoffset == pos + 2
         endoffset == startoffset + subopt_len
         subopt_data == Slice(data, startoffset, endoffset)
     IN  loop' = Some(
           IF ~((pos + 1) < Len(data)) THEN [l EXCEPT !.at = "done"]
           ELSE IF ~IndexOk(data, pos) \/ ~IndexOk(data, pos + 1)
             THEN [l EXCEPT !.at = "panicked"]
           ELSE IF startoffset >= Len(data) THEN [l EXCEPT !.at = "done"]
           ELSE IF endoffset > Len(data) THEN [l EXCEPT !.at = "done"]
           ELSE IF ~RangeOk(data, startoffset, endoffset)
             THEN [l EXCEPT !.at = "panicked"]
           ELSE IF subopt_code = 204
             THEN [l EXCEPT !.at = "labels", !.subopt_data = subopt_data,
                            !.subopt_len = subopt_len, !.i = 0, !.labels = <<>>]
           ELSE [l EXCEPT !.st = SubOption(subopt_code, subopt_data, l.st),
                          !.pos = NextPos(pos, subopt_len)])
  /\ UNCHANGED <<local_if_mac, local_ll_addr, call, sent, ret, io, demo>>

\* one test of `while i < subopt_data.len()` and its body; when the loop
\* is left, the rest of the 204 arm and of the outer body (ipv4.rs 323-345)
LabelIter ==
  /\ loop # None
  /\ loop[1].at = "labels"
  /\ LET l == loop[1]
         subopt_data == l.subopt_data
         i == l.i
         label_len == subopt_data[i + 1]
         start_i == i + 1
         end_i == start_i + label_len
         left == [l EXCEPT !.st = [@ EXCEPT !.sip_domain_name = Some(Join(l.labels))],
                           !.pos = NextPos(l.pos, l.subopt_len),
                           !.at = "walk"]
     IN  loop' = Some(
           IF ~(i < Len(subopt_data)) THEN left
           ELSE IF ~IndexOk(subopt_data, i) THEN [l EXCEPT !.at = "panicked"]
           ELSE IF label_len = 0 THEN left
           ELSE IF start_i >= Len(subopt_data) THEN left
           ELSE IF end_i > Len(subopt_data) THEN left
           ELSE IF ~RangeOk(subopt_data, start_i, end_i)
             THEN [l EXCEPT !.at = "panicked"]
           ELSE [l EXCEPT !.labels =
                   Append(@, FromUtf8Lossy(Slice(subopt_data, start_i, end_i))),
                          !.i = end_i])
  /\ UNCHANGED <<local_if_mac, local_ll_addr, call, sent, ret, io, demo>>

\* the walk is over: the arm of option 125 ends (ipv4.rs 346-347)
WalkExit ==
  /\ loop # None
  /\ loop[1].at \in {"done", "panicked"}
  /\ loop' = None
  /\ UNCHANGED <<local_if_mac, local_ll_addr, call, sent, ret, io, demo>>

WalkNext == WalkEnter \/ WalkIter \/ LabelIter \/ WalkExit

\* a running loop goes on to its next iteration
WalkSpec ==
  WalkInit /\ [][WalkNext]_vars /\ WF_vars(WalkIter) /\ WF_vars(LabelIter)

(* ---- the orchestrator: main of examples/dhcp-demo.rs ------------------ *)
\* replies the DHCPv4 server may give the orchestrator
DemoCodes4 == {1, 53, 54}
DemoMsgs4 ==
  { Msg4(opcode, yiaddr, opts) :
      opcode \in {"BootRequest", "BootReply"}, yiaddr \in Addrs4,
      opts \in UNION { OptMaps4(S) :
                         S \in { T \in SUBSET DemoCodes4 : Cardinality(T) <= MaxDemoOpts4 } } }

\* replies the DHCPv6 server may give the orchestrator
DemoOpts6 ==
  { ClientIdOpt(LocalDuid(m)) : m \in Macs } \cup
  { ServerIdOpt(ServerDuid),
    StatusCodeOpt("NoPrefixAvail"),
    IAPDOpt(7, 1, 2, <<>>),
    IAPDOpt(7, 1, 2, <<IAPrefixOpt(100, 200, Prefix6(1), 56, <<>>)>>),
    IAPDOpt(8, 3, 4, <<IAPrefixOpt(300, 400, Prefix6(2), 60, <<>>)>>) }
DemoMsgs6 ==
  { Msg6(t, opts) : t \in MsgTypes6, opts \in SortedLists(DemoOpts6, MaxDemoOpts6, 0) }

\* the program starts with the DHCPv4 client constructed (dhcp-demo.rs 40)
DemoInit ==
  /\ local_if_mac = <<170, 187, 204, 221, 238, 255>>
  /\ call = None
  /\ sent = None
  /\ ret = None
  /\ io = <<>>
  /\ pc = "v4_discover"
  /\ res = None
  /\ ia = None
  /\ steps = <<>>
  /\ local_ll_addr = Addr6(1)
  /\ loop = None

Step(op, ok) == steps' = Append(steps, [op |-> op, ok |-> ok])

\* `call(..)?` inside a block of main: an Err returns from main, a panic
\* aborts the program, Ok goes on to the next statement
After(op, next) ==
  /\ Step(op, ret'[1].tag = "Ok")
  /\ pc' = IF ret'[1].tag = "Ok" THEN next
           ELSE IF ret'[1].tag = "Panic" THEN "panicked" ELSE "exit_err"

\* `let res = ..recv(..)?`
Bind ==
  res' = IF ret'[1].tag = "Ok" THEN ret'[1].val ELSE None

\* v4_client.discover()? (dhcp-demo.rs 41)
DemoDiscover ==
  /\ pc = "v4_discover"
  /\ \E outcome \in SendOutcomes :
     \E order \in WireOrders(DOMAIN DiscoverMsg(local_if_mac).opts) :
       DoDiscover(outcome, order)
  /\ After("discover", "v4_recv_offer")
  /\ UNCHANGED <<local_if_mac, local_ll_addr, loop, res, ia>>

\* what the socket hands to a recv of the orchestrator
DemoRx4 ==
  { <<rx, <<>>>> : rx \in {RxTimeout, RxGarbage} } \cup
  UNION { { <<RxMsg(m), order>> : order \in Orders(DOMAIN m.opts) } : m \in DemoMsgs4 }
DemoRx6 == {RxTimeout, RxGarbage} \cup { RxMsg(m) : m \in DemoMsgs6 }

\* let res = v4_client.recv(MessageType::Offer)? (dhcp-demo.rs 42)
DemoRecvOffer ==
  /\ pc = "v4_recv_offer"
  /\ \E r \in DemoRx4 : DoRecv4("Offer", r[1], r[2])
  /\ After("recv_offer", "v4_check")
  /\ Bind
  /\ UNCHANGED <<local_if_mac, local_ll_addr, loop, ia>>

\* the test of dhcp-demo.rs 43
AddrMissing(r) == r.client_addr = None \/ r.server_addr = None

\* if res.client_addr.is_none() || res.server_addr.is_none() { Err(..)? }
\* (dhcp-demo.rs 43-45)
DemoCheck4 ==
  /\ pc = "v4_check"
  /\ Step("check4", ~AddrMissing(res[1]))
  /\ pc' = IF AddrMissing(res[1]) THEN "exit_err" ELSE "v4_request"
  /\ UNCHANGED <<local_if_mac, local_ll_addr, loop, call, sent, ret, io, res, ia>>

\* DemoRequestArgs with the two addresses exchanged
DemoRequestArgsSwapped(r) ==
  [req_ip |-> r.server_addr[1], server_id |-> r.client_addr[1]]

\* the arguments of request (dhcp-demo.rs 46)
DemoRequestArgs(r) ==
  [req_ip |-> r.client_addr[1], server_id |-> r.server_addr[1]]

\* v4_client.request(Select, res.client_addr.unwrap(),
\* res.server_addr.unwrap())? (dhcp-demo.rs 46)
DemoRequest ==
  /\ pc = "v4_request"
  /\ IF AddrMissing(res[1])
     THEN /\ pc' = "panicked"
          /\ Step("request", FALSE)
          /\ UNCHANGED <<call, sent, ret, io>>
     ELSE /\ \E outcome \in SendOutcomes :
             LET a == DemoRequestArgs(res[1])
             IN  \E order \in WireOrders(DOMAIN RequestMsg(local_if_mac, "Select",
                                                            a.req_ip, a.server_id).opts) :
                   DoRequest("Select", a.req_ip, a.server_id, outcome, order)
          /\ After("request", "v4_recv_ack")
  /\ UNCHANGED <<local_if_mac, local_ll_addr, loop, res, ia>>

\* let res = v4_client.recv(MessageType::Ack)? (dhcp-demo.rs 47)
DemoRecvAck ==
  /\ pc = "v4_recv_ack"
  /\ \E r \in DemoRx4 : DoRecv4("Ack", r[1], r[2])
  /\ After("recv_ack", "v4_bound")
  /\ Bind
  /\ UNCHANGED <<local_if_mac, local_ll_addr, loop, ia>>

\* println!("IPv4 lease..") and the end of the block; then
\* let ia_id = rand::random() and Dhcp6Client::new (dhcp-demo.rs 48-59)
DemoLease4 ==
  /\ pc = "v4_bound"
  /\ Step("lease4", TRUE)
  /\ pc' = "v6_solicit"
  /\ call' = None /\ sent' = None /\ ret' = None /\ io' = <<>>
  /\ res' = None
  /\ \E id \in IaIds : ia' = Some(id)
  /\ UNCHANGED <<local_if_mac, local_ll_addr, loop>>

\* v6_client.solicit_pd(init.elapsed(), ia_id)? (dhcp-demo.rs 60)
DemoSolicitPd ==
  /\ pc = "v6_solicit"
  /\ \E elapsed \in ElapsedMs, outcome \in SendOutcomes :
       DoSolicitPd(elapsed, ia[1], outcome)
  /\ After("solicit_pd", "v6_recv_advertise")
  /\ UNCHANGED <<local_if_mac, local_ll_addr, loop, res, ia>>

\* let res = v6_client.recv(MessageType::Advertise)? (dhcp-demo.rs 61)
DemoRecvAdvertise ==
  /\ pc = "v6_recv_advertise"
  /\ \E rx \in DemoRx6 : DoRecv6("Advertise", rx)
  /\ After("recv_advertise", "v6_check")
  /\ Bind
  /\ UNCHANGED <<local_if_mac, local_ll_addr, loop, ia>>

\* if res.pd.is_none() { Err(..)? } (dhcp-demo.rs 62-64)
DemoCheck6 ==
  /\ pc = "v6_check"
  /\ Step("check6", res[1].pd # None)
  /\ pc' = IF res[1].pd = None THEN "exit_err" ELSE "v6_request"
  /\ UNCHANGED <<local_if_mac, local_ll_addr, loop, call, sent, ret, io, res, ia>>

\* DemoRequestPdArgs echoing the client id in place of the server id
DemoRequestPdArgsClientId(r, id) ==
  [ia_id |-> id, server_id |-> r.client_id, pd |-> r.pd[1]]

\* the arguments of request_pd (dhcp-demo.rs 65)
DemoRequestPdArgs(r, id) ==
  [ia_id |-> id, server_id |-> r.server_id, pd |-> r.pd[1]]

\* v6_client.request_pd(init.elapsed(), ia_id, res.server_id,
\* res.pd.unwrap())? (dhcp-demo.rs 65)
DemoRequestPd ==
  /\ pc = "v6_request"
  /\ IF res[1].pd = None
     THEN /\ pc' = "panicked"
          /\ Step("request_pd", FALSE)
          /\ UNCHANGED <<call, sent, ret, io>>
     ELSE /\ \E elapsed \in ElapsedMs, outcome \in SendOutcomes :
             LET a == DemoRequestPdArgs(res[1], ia[1])
             IN  DoRequestPd(elapsed, a.ia_id, a.server_id, a.pd, outcome)
          /\ After("request_pd", "v6_recv_reply")
  /\ UNCHANGED <<local_if_mac, local_ll_addr, loop, res, ia>>

\* let res = v6_client.recv(MessageType::Reply)? (dhcp-demo.rs 66)
DemoRecvReply ==
  /\ pc = "v6_recv_reply"
  /\ \E rx \in DemoRx6 : DoRecv6("Reply", rx)
  /\ After("recv_reply", "v6_bound")
  /\ Bind
  /\ UNCHANGED <<local_if_mac, local_ll_addr, loop, ia>>

\* println!("IPv6 lease..") and Ok(()) (dhcp-demo.rs 67-74)
DemoLease6 ==
  /\ pc = "v6_bound"
  /\ Step("lease6", TRUE)
  /\ pc' = "exit_ok"
  /\ UNCHANGED <<local_if_mac, local_ll_addr, loop, call, sent, ret, io, res, ia>>

DemoNext ==
  \/ DemoDiscover \/ DemoRecvOffer \/ DemoCheck4 \/ DemoRequest \/ DemoRecvAck
  \/ DemoLease4
  \/ DemoSolicitPd \/ DemoRecvAdvertise \/ DemoCheck6 \/ DemoRequestPd
  \/ DemoRecvReply \/ DemoLease6

DemoSpec == DemoInit /\ [][DemoNext]_vars

(* ---- one Dhcp6Client handle from its construction on ----------------- *)
\* Ipv6Addr::is_unicast_link_local: the address is in fe80::/10
IsUnicastLinkLocal(addr) == addr[1] = 254 /\ addr[2] >= 128 /\ addr[2] <= 191

\* fe80::1, febf::1, fec0::1, fe7f::1, 2001::1, ff02::1
LlCandidates ==
  { [k \in 1..16 |-> IF k = 1 THEN h[1] ELSE IF k = 2 THEN h[2]
                      ELSE IF k = 16 THEN 1 ELSE 0] :
      h \in { <<254, 128>>, <<254, 191>>, <<254, 192>>, <<254, 127>>,
              <<32, 1>>, <<255, 2>> } }

\* New6Accepts taking any address
New6AcceptsAny(local_ll_address) == TRUE

\* the check of Dhcp6Client::new (ipv6.rs 65)
New6Accepts(local_ll_address) == IsUnicastLinkLocal(local_ll_address)

\* Dhcp6Client::local_ll (ipv6.rs 91-95); a failing assert! panics
LocalLl(addr) ==
  IF IsUnicastLinkLocal(addr) THEN Ok(addr)
  ELSE Panic("Local address is not link local")

NoHandle == local_if_mac = None /\ local_ll_addr = None

\* before Dhcp6Client::new is called
HandleInit ==
  /\ NoHandle
  /\ call = None /\ sent = None /\ ret = None /\ io = <<>>
  /\ pc = "api" /\ res = None /\ ia = None /\ steps = <<>>
  /\ loop = None

\* Dhcp6Client::new (ipv6.rs 64-81); any of the socket calls may fail
New6 ==
  /\ Idle
  /\ NoHandle
  /\ \E local_ll_address \in LlCandidates, mac \in Macs, socket \in {"bound", "failed"} :
       /\ call' = Some([op |-> "new", local_ll_address |-> local_ll_address,
                        local_if_mac |-> mac])
       /\ IF ~New6Accepts(local_ll_address)
          THEN /\ ret' = Some(Err("InvalidInput", "Invalid IPv6 link-local address"))
               /\ io' = <<>>
               /\ UNCHANGED <<local_if_mac, local_ll_addr>>
          ELSE IF socket = "failed"
          THEN /\ ret' = Some(Err("AddrNotAvailable", "bind"))
               /\ io' = <<"bind">>
               /\ UNCHANGED <<local_if_mac, local_ll_addr>>
          ELSE /\ ret' = Some(Ok(<<>>))
               /\ io' = <<"bind">>
               /\ local_if_mac' = mac
               /\ local_ll_addr' = local_ll_address
  /\ sent' = None
  /\ UNCHANGED <<loop, demo>>

\* a call of local_ll on the handle (ipv6.rs 91-95)
LocalLlCall ==
  /\ Idle
  /\ ~NoHandle
  /\ call' = Some([op |-> "local_ll"])
  /\ ret' = Some(LocalLl(local_ll_addr))
  /\ sent' = None
  /\ io' = <<>>
  /\ UNCHANGED <<local_if_mac, local_ll_addr, loop, demo>>

\* a call of local_duid on the handle (ipv6.rs 97-102)
LocalDuidCall ==
  /\ Idle
  /\ ~NoHandle
  /\ call' = Some([op |-> "local_duid"])
  /\ ret' = Some(Ok(LocalDuid(local_if_mac)))
  /\ sent' = None
  /\ io' = <<>>
  /\ UNCHANGED <<local_if_mac, local_ll_addr, loop, demo>>

\* recv on the handle, on the replies of a server
HandleRecv6 ==
  /\ Idle
  /\ \E expected_msg_type \in MsgTypes6 : \E rx \in DemoRx6 :
       DoRecv6(expected_msg_type, rx)
  /\ UNCHANGED <<local_if_mac, local_ll_addr, loop, demo>>

\* the methods take &self: any of them may be called once the handle exists
HandleNext ==
  \/ New6
  \/ LocalLlCall
  \/ LocalDuidCall
  \/ (~NoHandle /\ SolicitPd)
  \/ (~NoHandle /\ RequestPd)
  \/ (~NoHandle /\ HandleRecv6)
  \/ Return

HandleSpec == HandleInit /\ [][HandleNext]_vars

(* ============================== claims ================================ *)
Called(op) == call # None /\ call[1].op = op
\* the last call read a datagram that decoded as a message
GotMsg(op) == Called(op) /\ call[1].rx.io = "msg"
RxOpts == call[1].rx.msg.opts
Result == ret[1]
Response == ret[1].val[1]
Min(a, b) == IF a < b THEN a ELSE b
WithoutOpt(m, code) ==
  [m EXCEPT !.opts = [c \in (DOMAIN m.opts) \ {code} |-> m.opts[c]]]

\* a sub-option region read strictly as a list of [code][len][data]
RECURSIVE TlvWellFormed(_)
TlvWellFormed(b) ==
  \/ b = <<>>
  \/ /\ Len(b) >= 2
     /\ Len(b) >= 2 + b[2]
     /\ TlvWellFormed(SubSeq(b, 3 + b[2], Len(b)))
RECURSIVE TlvItems(_)
TlvItems(b) ==
  IF b = <<>> THEN <<>>
  ELSE << [code |-> b[1], data |-> SubSeq(b, 3, 2 + b[2])] >>
       \o TlvItems(SubSeq(b, 3 + b[2], Len(b)))

\* d is a well-formed enterprise-210 block whose only sub-option 202 holds
\* the non-empty ASCII string str, NUL-terminated or filling the sub-option
HoldsMainNumber(d, str) ==
  /\ Len(d) >= 5
  /\ FromBeBytes(SubSeq(d, 1, 4)) = 210
  /\ TlvWellFormed(SubSeq(d, 6, Len(d)))
  /\ LET items == TlvItems(SubSeq(d, 6, Len(d)))
         at == { k \in 1..Len(items) : items[k].code = 202 }
     IN  /\ Cardinality(at) = 1
         /\ \A k \in at :
              /\ str # <<>>
              /\ \A j \in 1..Len(str) : str[j] >= 1 /\ str[j] <= 127
              /\ items[k].data = str \/ items[k].data = str \o <<0>>

\* C1: a received option 125 of enterprise 210 holding sub-option 202 with a
\* non-empty ASCII string, NUL-terminated or full-length without NUL, makes
\* recv return sip_main_number equal to that string.
C1_MainNumberDecoded ==
  (GotMsg("recv4") /\ Result.tag = "Ok" /\ 125 \in DOMAIN RxOpts) =>
    \A str \in { <<49, 50, 51, 52, 53>>, <<49, 50>> } :
      HoldsMainNumber(RxOpts[125].data, str) =>
        Response.sip_main_number = Some(str)

\* C2: for every DHCPv6 message of the expected type, whatever options it
\* carries, recv returns Ok or Err and never panics.
C2_Recv6NeverPanics ==
  (GotMsg("recv6") /\ call[1].rx.msg.msg_type = call[1].expected) =>
    Result.tag \in {"Ok", "Err"}

\* C3: recv4 returns Ok only when the message type of the received
\* BootReply equals expected_msg_type; a different or absent message type
\* gives an error.
C3_OkOnlyForExpectedType ==
  (GotMsg("recv4") /\ call[1].rx.msg.opcode = "BootReply") =>
    LET typed == 53 \in DOMAIN RxOpts /\ RxOpts[53].mtype = call[1].expected
    IN  /\ Result.tag = "Ok" => typed
        /\ ~typed => Result.tag = "Err"

\* the message holds a non-success StatusCode at the top level, in an IA-PD
\* container or in an IA-Prefix of one
CarriesFailure(opts) ==
  \E i \in 1..Len(opts) :
    \/ opts[i].kind = "StatusCode" /\ opts[i].status # "Success"
    \/ /\ opts[i].kind = "IAPD"
       /\ \E j \in 1..Len(opts[i].opts) :
            LET o == opts[i].opts[j]
            IN  \/ o.kind = "StatusCode" /\ o.status # "Success"
                \/ /\ o.kind = "IAPrefix"
                   /\ \E k \in 1..Len(o.opts) : o.opts[k] # "Success"

\* C4: a non-success StatusCode anywhere in the received DHCPv6 message, at
\* the top level or nested in an IA-PD container or its IA-Prefix, makes
\* recv fail and return no response.
C4_AnyFailureStatusFails ==
  (GotMsg("recv6") /\ CarriesFailure(RxOpts)) => Result.tag # "Ok"

ProtocolMismatchErrors ==
  {"Unexpected message type", "client DUID mismatch", "DHCP error"}

ForeignClientId ==
  \E i \in 1..Len(RxOpts) :
    RxOpts[i].kind = "ClientId" /\ RxOpts[i].id # <<0, 3, 0, 1>> \o local_if_mac

\* C5: when the received DHCPv6 message carries a ClientId different from
\* the client's DUID (00 03 00 01 + MAC), recv fails with a
\* protocol-mismatch error whatever the other options are.
C5_ForeignClientIdFails ==
  (GotMsg("recv6") /\ ForeignClientId) =>
    Result.tag = "Err" /\ Result.msg \in ProtocolMismatchErrors

C5_Witness ==
  /\ GotMsg("recv6")
  /\ ForeignClientId
  /\ call[1].rx.msg.msg_type = call[1].expected
  /\ Len(RxOpts) >= 3
  /\ \E i \in 1..Len(RxOpts) : RxOpts[i].kind = "IAPD"
  /\ Result.msg = "client DUID mismatch"

\* the addresses the claim expects of an option-120 payload d
Expected120(d) ==
  IF Len(d) = 0 THEN <<>>
  ELSE [i \in 1..Min(d[1], (Len(d) - 1) \div 4) |-> SubSeq(d, 4 * i - 2, 4 * i + 1)]

\* C6: option 120 with payload d yields exactly min(d[0], floor((L-1)/4))
\* addresses, the i-th being d[1+4i .. 1+4i+4], and no failure: recv ends as
\* it does without the option; an empty payload yields none.
C6_SipServers120 ==
  (GotMsg("recv4") /\ 120 \in DOMAIN RxOpts) =>
    /\ \A order \in Orders(DOMAIN RxOpts \ {120}) :
         Result.tag = Recv4Result(RxMsg(WithoutOpt(call[1].rx.msg, 120)),
                                  call[1].expected, order).tag
    /\ Result.tag = "Ok" =>
         Response.sip_server_addrs = Expected120(RxOpts[120].data)

C6_Witness ==
  /\ GotMsg("recv4")
  /\ 120 \in DOMAIN RxOpts
  /\ RxOpts[120].data = <<3, 10, 0, 0, 1, 10, 0, 0, 2>>
  /\ Result.tag = "Ok"
  /\ Response.sip_server_addrs = << <<10, 0, 0, 1>>, <<10, 0, 0, 2>> >>

ForeignBlock(d) == Len(d) >= 4 /\ FromBeBytes(SubSeq(d, 1, 4)) # 210

\* C7: an option 125 whose enterprise number is not 210 is not parsed at
\* all: recv returns exactly what it returns for the message without the
\* option, the other options being processed as usual.
C7_ForeignEnterpriseIgnored ==
  (GotMsg("recv4") /\ 125 \in DOMAIN RxOpts /\ ForeignBlock(RxOpts[125].data)) =>
    \A order \in Orders(DOMAIN RxOpts \ {125}) :
      Result = Recv4Result(RxMsg(WithoutOpt(call[1].rx.msg, 125)),
                           call[1].expected, order)

C7_Witness ==
  /\ GotMsg("recv4")
  /\ 125 \in DOMAIN RxOpts
  /\ RxOpts[125].data = <<0, 0, 0, 211, 5, 202, 3, 49, 50, 0>>
  /\ 54 \in DOMAIN RxOpts
  /\ Result.tag = "Ok"
  /\ Response.sip_main_number = None
  /\ Response.server_addr = Some(<<192, 0, 2, 1>>)

\* an IA-Prefix sits in some IA-PD container of the message
HoldsIaPrefix(opts) ==
  \E i \in 1..Len(opts) :
    /\ opts[i].kind = "IAPD"
    /\ \E j \in 1..Len(opts[i].opts) : opts[i].opts[j].kind = "IAPrefix"

\* C8: recv6 returns pd = None when the message has no IA-PD option or its
\* IA-PD containers hold no IA-Prefix, and pd = Some only when an IA-Prefix
\* was found inside an IA-PD container.
C8_PdAbsentWithoutPrefix ==
  (GotMsg("recv6") /\ Result.tag = "Ok") =>
    (Response.pd = None <=> ~HoldsIaPrefix(RxOpts))

C8_Witness ==
  /\ GotMsg("recv6")
  /\ Result.tag = "Ok"
  /\ \E i \in 1..Len(RxOpts) : RxOpts[i].kind = "IAPD" /\ RxOpts[i].opts = <<>>
  /\ ~HoldsIaPrefix(RxOpts)
  /\ Response.pd = None

\* the IA-Prefix options of the message in order, each with the t1/t2 of
\* the container that holds it
RECURSIVE PrefixesIn(_, _)
PrefixesIn(pd, j) ==
  IF j > Len(pd.opts) THEN <<>>
  ELSE (IF pd.opts[j].kind = "IAPrefix"
        THEN << [prefix |-> pd.opts[j].prefix_ip,
                 prefix_len |-> pd.opts[j].prefix_len,
                 preferred_lifetime |-> pd.opts[j].preferred_lifetime,
                 valid_lifetime |-> pd.opts[j].valid_lifetime,
                 t1 |-> pd.t1, t2 |-> pd.t2] >>
        ELSE <<>>) \o PrefixesIn(pd, j + 1)
RECURSIVE AllPrefixes(_)
AllPrefixes(opts) ==
  IF opts = <<>> THEN <<>>
  ELSE (IF Head(opts).kind = "IAPD" THEN PrefixesIn(Head(opts), 1) ELSE <<>>)
       \o AllPrefixes(Tail(opts))

\* C9: when the message holds more than one IA-Prefix, the returned PdPrefix
\* is the first IA-Prefix found, with the t1/t2 of the container holding it.
C9_FirstPrefixWins ==
  (GotMsg("recv6") /\ Result.tag = "Ok" /\ Len(AllPrefixes(RxOpts)) > 1) =>
    Response.pd = Some(AllPrefixes(RxOpts)[1])

SentMsg == sent[1].msg
HeaderAddrs(m) == <<m.ciaddr, m.yiaddr, m.siaddr, m.giaddr>>

\* C10: a Request has all four header addresses 0.0.0.0 for Select and
\* InitReboot, and for Renew and Rebind the client-IP field equal to the
\* requested address with the other three 0.0.0.0.
C10_RequestHeaderAsClaimed ==
  (Called("request") /\ sent # None) =>
    HeaderAddrs(SentMsg) =
      IF call[1].req_type \in {"Select", "InitReboot"}
      THEN <<Zero4, Zero4, Zero4, Zero4>>
      ELSE <<call[1].req_ip, Zero4, Zero4, Zero4>>

\* C10 (amended): Select puts the server identifier in the server-IP header
\* field and leaves client, your and gateway IP 0.0.0.0; InitReboot has all
\* four 0.0.0.0; Renew and Rebind have the client-IP field equal to the
\* requested address and the other three 0.0.0.0.
C10_RequestHeader ==
  (Called("request") /\ sent # None) =>
    HeaderAddrs(SentMsg) =
      CASE call[1].req_type = "Select" -> <<Zero4, Zero4, call[1].server_id, Zero4>>
        [] call[1].req_type = "InitReboot" -> <<Zero4, Zero4, Zero4, Zero4>>
        [] OTHER -> <<call[1].req_ip, Zero4, Zero4, Zero4>>

C10_Witness ==
  /\ Called("request")
  /\ sent # None
  /\ call[1].req_type = "Select"
  /\ call[1].server_id = <<192, 0, 2, 1>>
  /\ SentMsg.siaddr = <<192, 0, 2, 1>>
  /\ SentMsg.ciaddr = Zero4

(* ------------------------- C11 .. C20 --------------------------------- *)
\* the message a peer decodes from the datagram the last call sent
Decoded == Decode4(sent[1].buf)

\* C11: the Request built by request holds RequestedIpAddress exactly for
\* Select and InitReboot and ServerIdentifier exactly for Select; every
\* sub-type has MessageType=Request, the broadcast flag, the
\* parameter-request list [1, 3, 120, 121, 125], MaxMessageSize 1200 and
\* ClientIdentifier = local MAC; no option code is inserted twice, and
\* decoding the encoded message gives back every inserted option.
C11_RequestOptions ==
  (Called("request") /\ sent # None) =>
    LET t == call[1].req_type
        ins == RequestInserts(local_if_mac, t, call[1].req_ip, call[1].server_id)
    IN  /\ \A m \in {SentMsg, Decoded} :
             /\ (50 \in DOMAIN m.opts) <=> (t \in {"Select", "InitReboot"})
             /\ (54 \in DOMAIN m.opts) <=> (t = "Select")
             /\ {53, 55, 57, 61} \subseteq DOMAIN m.opts
             /\ m.opts[53] = <<3>>
             /\ m.broadcast
             /\ m.opts[55] = <<1, 3, 120, 121, 125>>
             /\ FromBeBytes(<<0, 0>> \o m.opts[57]) = 1200
             /\ m.opts[61] = local_if_mac
        /\ \A i, j \in 1..Len(ins) : i # j => ins[i].code # ins[j].code
        /\ \A i \in 1..Len(ins) :
             /\ ins[i].code \in DOMAIN Decoded.opts
             /\ Decoded.opts[ins[i].code] = ins[i].payload
        /\ Cardinality(DOMAIN Decoded.opts) = Len(ins)

C11_Witness ==
  /\ Called("request")
  /\ sent # None
  /\ call[1].req_type = "Select"
  /\ call[1].req_ip = <<192, 0, 2, 10>>
  /\ sent[1].buf[241] = 124
  /\ Decoded.opts[50] = <<192, 0, 2, 10>>
  /\ Decoded.opts[54] = call[1].server_id
  /\ Len(sent[1].buf) > 280

\* ff02::1:2, written out
Ff02_1_2 == <<255, 2, 0, 0, 0, 0, 0, 0, 0, 0, 0, 0, 0, 1, 0, 2>>

\* C12: every v4 send goes to 255.255.255.255 port 67, except a Request of
\* sub-type Renew, which goes to (server_id, 67); Discover, Select,
\* InitReboot and Rebind are broadcast.  Every v6 send goes to ff02::1:2
\* port 547.
C12_SendDestinations ==
  sent # None =>
    /\ Called("discover") => sent[1].dst = Broadcast4 /\ sent[1].port = 67
    /\ Called("request") =>
         /\ sent[1].port = 67
         /\ sent[1].dst = IF call[1].req_type = "Renew"
                          THEN call[1].server_id ELSE Broadcast4
    /\ (Called("solicit_pd") \/ Called("request_pd")) =>
         sent[1].dst = Ff02_1_2 /\ sent[1].port = 547

C12_Witness ==
  /\ Called("request")
  /\ sent # None
  /\ call[1].req_type = "Renew"
  /\ call[1].server_id = <<192, 0, 2, 1>>
  /\ sent[1].dst = <<192, 0, 2, 1>>
  /\ sent[1].port = 67

SendOps == {"discover", "request", "solicit_pd", "request_pd"}
RecvOps == {"recv4", "recv6"}

\* C13: a call of discover, request, solicit_pd or request_pd performs at
\* most one send and no receive; a call of recv performs exactly one
\* receive and no send; a timeout or an undecodable datagram makes recv
\* return an error, and a recv that returns an error has made no second
\* receive.
C13_NoRetry ==
  call # None =>
    /\ call[1].op \in SendOps =>
         /\ Len(io) <= 1
         /\ \A k \in 1..Len(io) : io[k] = "send_to"
         /\ sent # None => io = <<"send_to">>
    /\ call[1].op \in RecvOps =>
         /\ io = <<"recv_from">>
         /\ sent = None
         /\ call[1].rx.io \in {"timeout", "garbage"} => Result.tag = "Err"
         /\ Result.tag = "Err" => Len(io) = 1

C13_Witness ==
  /\ Called("recv4")
  /\ call[1].rx.io = "timeout"
  /\ Result.tag = "Err"
  /\ Result.kind = "WouldBlock"
  /\ io = <<"recv_from">>

\* C16: in every response of recv (v4), client_addr is None exactly when
\* the your-IP field of the message is 0.0.0.0 and Some(yiaddr) otherwise;
\* it is never Some(0.0.0.0).
C16_ClientAddrFromYiaddr ==
  (GotMsg("recv4") /\ Result.tag = "Ok") =>
    LET yiaddr == call[1].rx.msg.yiaddr
    IN  /\ Response.client_addr # Some(<<0, 0, 0, 0>>)
        /\ (Response.client_addr = None) <=> (yiaddr = <<0, 0, 0, 0>>)
        /\ yiaddr # <<0, 0, 0, 0>> => Response.client_addr = Some(yiaddr)

C16_Witness ==
  /\ GotMsg("recv4")
  /\ Result.tag = "Ok"
  /\ call[1].rx.msg.yiaddr = <<0, 0, 0, 0>>
  /\ 54 \in DOMAIN RxOpts
  /\ Response.client_addr = None
  /\ Response.server_addr # None

\* the enterprise block as the claim describes it
VendorBlock7(mac) == <<0, 0, 0, 210, 7, 6>> \o mac

\* C17: every v4 Request carries the enterprise block under option code
\* 125, the code recv parses as the enterprise block, with payload
\* 00 00 00 D2, 07, 06 and the 6-byte local MAC.
C17_VendorBlockUnder125 ==
  (Called("request") /\ sent # None) =>
    /\ 125 \in DOMAIN Decoded.opts
    /\ Decoded.opts[125] = VendorBlock7(local_if_mac)

\* C17 (amended): every v4 Request carries the enterprise block under
\* option code 124, not under 125, the code recv parses; its payload is
\* 00 00 00 D2, 07, 06 and the 6-byte local MAC.
C17_VendorBlockUnder124 ==
  (Called("request") /\ sent # None) =>
    /\ 124 \in DOMAIN Decoded.opts
    /\ 125 \notin DOMAIN Decoded.opts
    /\ Decoded.opts[124] = VendorBlock7(local_if_mac)
    /\ Len(local_if_mac) = 6

C17_Witness ==
  /\ Called("request")
  /\ sent # None
  /\ call[1].req_type = "Rebind"
  /\ local_if_mac = <<170, 187, 204, 221, 238, 255>>
  /\ Decoded.opts[124] = <<0, 0, 0, 210, 7, 6, 170, 187, 204, 221, 238, 255>>

\* C18: the Discover built for any local MAC, encoded and decoded, has
\* opcode BootRequest, the broadcast flag, all header addresses 0.0.0.0,
\* MessageType=Discover, parameter-request list [SubnetMask, Router],
\* MaxMessageSize 1200 and ClientIdentifier = the 6-byte local MAC, and is
\* sent to the broadcast address.
C18_DiscoverRoundTrip ==
  (Called("discover") /\ sent # None) =>
    /\ Decoded.opcode = "BootRequest"
    /\ Decoded.broadcast
    /\ HeaderAddrs(Decoded) = << <<0, 0, 0, 0>>, <<0, 0, 0, 0>>, <<0, 0, 0, 0>>, <<0, 0, 0, 0>> >>
    /\ DOMAIN Decoded.opts = {53, 55, 57, 61}
    /\ Decoded.opts[53] = <<1>>
    /\ Decoded.opts[55] = <<1, 3>>
    /\ FromBeBytes(<<0, 0>> \o Decoded.opts[57]) = 1200
    /\ Decoded.opts[61] = local_if_mac
    /\ Len(Decoded.opts[61]) = 6
    /\ sent[1].dst = <<255, 255, 255, 255>>

C18_Witness ==
  /\ Called("discover")
  /\ sent # None
  /\ local_if_mac = <<170, 187, 204, 221, 238, 255>>
  /\ sent[1].buf[241] = 61
  /\ Decoded.opts[55] = <<1, 3>>
  /\ Decoded.chaddr = local_if_mac

\* the fields of a Dhcp4Response that no vendor option sets
NonVendor(r) ==
  <<r.client_addr, r.server_addr, r.router_addrs, r.subnet_mask,
    r.addr_time, r.renewal_time, r.rebind_time, r.static_routes>>

\* C19: whatever bytes a received option 120 or 125 holds, recv reads no
\* byte outside the payload (an index or range outside a slice is a panic)
\* and does not panic; the option does not make recv fail: recv ends as it
\* does for the message without the option, and the non-vendor fields of
\* the response are those of the message without the option.
C19_VendorPayloadAbsorbed ==
  GotMsg("recv4") =>
    \A c \in {120, 125} \cap DOMAIN RxOpts :
      /\ Result.tag # "Panic"
      /\ \A order \in Orders(DOMAIN RxOpts \ {c}) :
           LET without == Recv4Result(RxMsg(WithoutOpt(call[1].rx.msg, c)),
                                      call[1].expected, order)
           IN  /\ Result.tag = without.tag
               /\ Result.tag = "Ok" => NonVendor(Response) = NonVendor(without.val[1])

C19_Witness ==
  /\ GotMsg("recv4")
  /\ 125 \in DOMAIN RxOpts
  /\ RxOpts[125].data = <<0, 0, 0, 210, 255, 204, 2, 1>>
  /\ Result.tag = "Ok"
  /\ Response.sip_domain_name = None
  /\ Response.client_addr = Some(<<192, 0, 2, 10>>)

\* the complete sub-options [code][len][data] at the start of a region;
\* last: the sub-option ends the region
RECURSIVE TlvPrefixItems(_)
TlvPrefixItems(b) ==
  IF Len(b) < 2 THEN <<>>
  ELSE IF Len(b) < 2 + b[2] THEN <<>>
  ELSE << [code |-> b[1], data |-> SubSeq(b, 3, 2 + b[2]), last |-> Len(b) = 2 + b[2]] >>
       \o TlvPrefixItems(SubSeq(b, 3 + b[2], Len(b)))

\* the labels of sub-option data d: a length byte and that many bytes
\* each, up to a zero length byte, the end of d, or a label that would run
\* past the end of d
RECURSIVE ClaimLabels(_)
ClaimLabels(d) ==
  IF d = <<>> THEN <<>>
  ELSE IF d[1] = 0 THEN <<>>
  ELSE IF 1 + d[1] > Len(d) THEN <<>>
  ELSE << SubSeq(d, 2, 1 + d[1]) >> \o ClaimLabels(SubSeq(d, 2 + d[1], Len(d)))

\* the '.'-join of the labels, each as the String its bytes convert to
ClaimDomain(d) ==
  LET labels == ClaimLabels(d)
  IN  Join([j \in 1..Len(labels) |-> FromUtf8Lossy(labels[j])])

StepOps == [k \in 1..Len(steps) |-> steps[k].op]
IsPrefix(a, b) == Len(a) <= Len(b) /\ a = SubSeq(b, 1, Len(a))
V4Order == <<"discover", "recv_offer", "check4", "request", "recv_ack", "lease4">>
V6Order == <<"solicit_pd", "recv_advertise", "check6", "request_pd", "recv_reply", "lease6">>
StepOk(k, op) == Len(steps) >= k /\ steps[k] = [op |-> op, ok |-> TRUE]
Failed == steps # <<>> /\ ~steps[Len(steps)].ok

\* C14: the orchestrator's DHCPv4 steps occur only in the order discover,
\* recv(Offer), request(Select), recv(Ack); request(Select) is made only
\* after recv(Offer) returned Ok with client_addr and server_addr present
\* and carries these two values as requested address and server
\* identifier; the lease is reported only after recv(Ack) returned Ok;
\* after a failing step no further step is taken.
C14_V4ExchangeOrder ==
  /\ IsPrefix(SubSeq(StepOps, 1, Min(Len(steps), 6)), V4Order)
  /\ \A k \in 1..Min(Len(steps), 6) : k < Len(steps) => steps[k].ok
  /\ (Failed /\ Len(steps) <= 6) => pc \in {"exit_err", "panicked"}
  /\ pc = "v4_check" =>
       /\ Called("recv4") /\ call[1].expected = "Offer"
       /\ Result.tag = "Ok" /\ res = Result.val
  /\ (Called("request") /\ pc # "api") =>
       /\ StepOk(1, "discover") /\ StepOk(2, "recv_offer") /\ StepOk(3, "check4")
       /\ Len(steps) = 4
       /\ res # None
       /\ res[1].client_addr # None /\ res[1].server_addr # None
       /\ call[1].req_type = "Select"
       /\ call[1].req_ip = res[1].client_addr[1]
       /\ call[1].server_id = res[1].server_addr[1]
       /\ sent # None =>
            /\ Decoded.opts[50] = res[1].client_addr[1]
            /\ Decoded.opts[54] = res[1].server_addr[1]
  /\ pc = "v4_bound" =>
       /\ StepOk(4, "request") /\ StepOk(5, "recv_ack")
       /\ Called("recv4") /\ call[1].expected = "Ack" /\ Result.tag = "Ok"

C14_Witness ==
  /\ pc = "v4_bound"
  /\ Len(steps) = 5
  /\ \A k \in 1..5 : steps[k].ok
  /\ res # None
  /\ 53 \in DOMAIN RxOpts
  /\ res[1].client_addr = Some(<<192, 0, 2, 10>>)

\* C15: request_pd is made only after recv(Advertise) returned Ok with pd
\* present, and it carries the server id and the PdPrefix of that response
\* under the IA id solicit_pd was called with; when the Advertise holds no
\* PD prefix the exchange ends with an error and request_pd is not sent;
\* the lease is reported only after recv(Reply) returned Ok.
C15_V6ExchangeOrder ==
  /\ Len(steps) > 6 => IsPrefix(SubSeq(StepOps, 7, Len(steps)), V6Order)
  /\ \A k \in 7..Len(steps) : k < Len(steps) => steps[k].ok
  /\ (Called("solicit_pd") /\ pc # "api") => call[1].ia_id = ia[1]
  /\ pc = "v6_check" =>
       /\ Called("recv6") /\ call[1].expected = "Advertise"
       /\ Result.tag = "Ok" /\ res = Result.val
  /\ (Called("request_pd") /\ pc # "api") =>
       /\ StepOk(7, "solicit_pd") /\ StepOk(8, "recv_advertise") /\ StepOk(9, "check6")
       /\ Len(steps) = 10
       /\ res # None /\ res[1].pd # None
       /\ call[1].ia_id = ia[1]
       /\ call[1].server_id = res[1].server_id
       /\ call[1].pd = res[1].pd[1]
       /\ sent # None =>
            /\ \E i \in 1..Len(SentMsg.opts) :
                 SentMsg.opts[i].kind = "ServerId" /\ SentMsg.opts[i].id = res[1].server_id
            /\ \E i \in 1..Len(SentMsg.opts) :
                 LET o == SentMsg.opts[i]
                 IN  /\ o.kind = "IAPD" /\ o.num = ia[1] /\ Len(o.opts) = 1
                     /\ o.opts[1].kind = "IAPrefix"
                     /\ o.opts[1].prefix_ip = res[1].pd[1].prefix
                     /\ o.opts[1].prefix_len = res[1].pd[1].prefix_len
                     /\ o.opts[1].preferred_lifetime = res[1].pd[1].preferred_lifetime
                     /\ o.opts[1].valid_lifetime = res[1].pd[1].valid_lifetime
  /\ (Len(steps) = 9 /\ res # None /\ res[1].pd = None) =>
       /\ steps[9] = [op |-> "check6", ok |-> FALSE]
       /\ pc = "exit_err"
       /\ ~Called("request_pd")
  /\ pc = "v6_bound" =>
       /\ StepOk(10, "request_pd") /\ StepOk(11, "recv_reply")
       /\ Called("recv6") /\ call[1].expected = "Reply" /\ Result.tag = "Ok"

C15_Witness ==
  /\ pc = "v6_bound"
  /\ Len(steps) = 11
  /\ \A k \in 1..11 : steps[k].ok
  /\ res # None
  /\ res[1].server_id = <<0, 1, 0, 1, 9, 9>>

\* an Advertise without PD prefix ends the exchange
NoPdEndsExchange ==
  /\ pc = "exit_err"
  /\ Len(steps) = 9
  /\ steps[9] = [op |-> "check6", ok |-> FALSE]
  /\ res[1].pd = None

\* the complete 16-byte groups of a payload, in order
Groups16(d) == [i \in 1..(Len(d) \div 16) |-> SubSeq(d, 16 * (i - 1) + 1, 16 * i)]
\* the groups of every option with the given code, in message order
RECURSIVE GroupsOf(_, _)
GroupsOf(opts, code) ==
  IF opts = <<>> THEN <<>>
  ELSE (IF Head(opts).kind = "Unknown" /\ Head(opts).code = code
        THEN Groups16(Head(opts).data) ELSE <<>>) \o GroupsOf(Tail(opts), code)

\* C21: when recv6 returns a response, each received SIP-server-address
\* option with a payload of L bytes gives exactly floor(L/16) entries of
\* sip_server_addrs, the i-th being payload bytes [16i, 16i+16), and each
\* SNTP-server option likewise of sntp_server_addrs; a trailing incomplete
\* group is dropped without error and no address lands in the other list.
C21_AddrGroups ==
  (GotMsg("recv6") /\ Result.tag = "Ok") =>
    /\ Response.sip_server_addrs = GroupsOf(RxOpts, SipServerA)
    /\ Response.sntp_server_addrs = GroupsOf(RxOpts, SntpServers)

\* a SIP option of 33 bytes (two groups and a spare byte) and an SNTP
\* option of 16 bytes were received and recv returned both lists
C21_Witness ==
  /\ GotMsg("recv6")
  /\ Result.tag = "Ok"
  /\ \E i, j \in 1..Len(RxOpts) :
       /\ RxOpts[i].kind = "Unknown" /\ RxOpts[i].code = SipServerA
       /\ Len(RxOpts[i].data) = 33
       /\ RxOpts[j].kind = "Unknown" /\ RxOpts[j].code = SntpServers
       /\ Len(RxOpts[j].data) = 16
       /\ Response.sip_server_addrs =
            << SubSeq(RxOpts[i].data, 1, 16), SubSeq(RxOpts[i].data, 17, 32) >>
       /\ Response.sntp_server_addrs = << RxOpts[j].data >>

Walking == loop # None /\ loop[1].at \in {"walk", "labels"}
WalkDone == loop # None /\ loop[1].at = "done"

\* the stepped walk ends with the locals SubOptionWalk computes
WalkAgrees ==
  WalkDone => loop[1].st = SubOptionWalk(loop[1].data, 5, Locals4)

\* what one step of the walks does to the cursors pos and i
WalkAdvances ==
  (loop # None /\ loop' # None) =>
    LET a == loop[1]
        b == loop'[1]
        len == Len(a.data)
        short == len - a.pos < 2
        overrun == ~short /\ a.pos + 2 + a.data[a.pos + 2] > len
    IN  /\ b.at # "panicked"
        /\ b.data = a.data
        /\ (a.at = "walk" /\ (short \/ overrun)) => (b.at = "done" /\ b.pos = a.pos)
        /\ (a.at = "walk" /\ b.at = "walk") =>
              /\ b.pos = a.pos + 2 + a.data[a.pos + 2]
              /\ b.pos > a.pos
              /\ b.pos <= len
        /\ (a.at = "walk" /\ b.at = "labels") =>
              /\ b.pos = a.pos
              /\ b.i = 0
              /\ b.subopt_data = SubSeq(a.data, a.pos + 3, a.pos + 2 + a.data[a.pos + 2])
        /\ (a.at = "labels" /\ b.at = "labels") =>
              /\ b.pos = a.pos
              /\ b.i > a.i
              /\ b.i <= Len(a.subopt_data)
        /\ (a.at = "labels" /\ b.at = "walk") =>
              /\ b.pos = a.pos + 2 + Len(a.subopt_data)
              /\ b.pos > a.pos
              /\ b.pos <= len

\* C22: the sub-option walk of option 125 terminates for every payload:
\* each iteration that consumes a sub-option moves pos forward by 2 plus
\* the sub-option length and leaves it at or below the payload length, the
\* walk ends as soon as fewer than 2 bytes remain or a sub-option would
\* overrun the payload, and the label walk of sub-option 204 moves i
\* strictly forward and terminates as well.
C22_WalksTerminate ==
  /\ [][WalkAdvances]_vars
  /\ Walking ~> WalkDone

\* a walk over a sub-option 204 holding one label and the root label has
\* ended with pos at the end of the payload
C22_Witness ==
  /\ WalkDone
  /\ loop[1].data = <<0, 0, 0, 210, 5, 204, 3, 1, 2, 0>>
  /\ loop[1].pos = 10
  /\ loop[1].st.sip_domain_name = Some(<<2>>)

\* the last step taken belongs to the DHCPv4 exchange and returned Err
V4StepFailed ==
  /\ Failed
  /\ steps[Len(steps)].op \in { V4Order[k] : k \in 1..5 }
  /\ pc # "panicked"

\* C23: in the orchestrator a failure of any step of the DHCPv4 exchange
\* (discover, recv(Offer), missing client/server address, request,
\* recv(Ack)) does not prevent the DHCPv6 exchange: the run does not end
\* there but goes on to the v6 solicit.
C23_V4FailureGoesOnToV6 ==
  V4StepFailed => pc = "v6_solicit"

\* the values of the ElapsedTime options of the message last sent
SentElapsed ==
  { SentMsg.opts[k].num : k \in { j \in 1..Len(SentMsg.opts) :
                                    SentMsg.opts[j].kind = "ElapsedTime" } }

\* C24: the ElapsedTime option sent by solicit_pd and request_pd holds a
\* 16-bit value: the elapsed duration in whole milliseconds when that is
\* below 65536, and 0 (neither 65535 nor the duration modulo 2^16) for any
\* duration of 65536 ms or more.
C24_ElapsedTimeField ==
  ((Called("solicit_pd") \/ Called("request_pd")) /\ sent # None) =>
    /\ Cardinality(SentElapsed) = 1
    /\ \A v \in SentElapsed :
         /\ v \in 0..65535
         /\ call[1].elapsed < 65536 => v = call[1].elapsed
         /\ call[1].elapsed >= 65536 => v = 0

\* a Request sent 70000 ms after the start carries ElapsedTime 0, less
\* than the 1500 a call made earlier would carry
C24_Witness ==
  /\ Called("request_pd")
  /\ sent # None
  /\ call[1].elapsed = 70000
  /\ SentElapsed = {0}
  /\ ElapsedTimeOpt(1500) \in
       { SolicitMsg(local_if_mac, 1500, call[1].ia_id).opts[k] : k \in 1..3 }

\* the ClientId values of the message last sent
SentClientIds ==
  { SentMsg.opts[k].id : k \in { j \in 1..Len(SentMsg.opts) :
                                   SentMsg.opts[j].kind = "ClientId" } }

\* no step changes the identity of a constructed handle
IdentityKept ==
  ~NoHandle => (local_if_mac' = local_if_mac /\ local_ll_addr' = local_ll_addr)

\* what the calls on a handle show of its identity
IdentityShown ==
  /\ NoHandle \/ (Len(local_if_mac) = 6 /\ IsUnicastLinkLocal(local_ll_addr))
  /\ (Called("new") /\ Result.tag = "Ok") =>
       /\ local_if_mac = call[1].local_if_mac
       /\ local_ll_addr = call[1].local_ll_address
  /\ Called("local_duid") =>
       /\ Result = Ok(<<0, 3, 0, 1>> \o local_if_mac)
       /\ Len(Response) = 10
  /\ Called("local_ll") => Result = Ok(local_ll_addr)
  /\ ((Called("solicit_pd") \/ Called("request_pd")) /\ sent # None) =>
       SentClientIds = { <<0, 3, 0, 1>> \o local_if_mac }
  /\ (Called("recv6") /\ Result.tag = "Ok") =>
       Response.client_id = <<0, 3, 0, 1>> \o local_if_mac
  /\ (GotMsg("recv6") /\ call[1].rx.msg.msg_type = call[1].expected
        /\ \E k \in 1..Len(RxOpts) :
             /\ RxOpts[k].kind = "ClientId"
             /\ RxOpts[k].id # <<0, 3, 0, 1>> \o local_if_mac
             /\ \A j \in 1..(k - 1) : RxOpts[j].kind = "ClientId") =>
       Result = Err("InvalidData", "client DUID mismatch")

\* C25: across any sequence of operations on one Dhcp6Client handle the
\* identity never changes: local_duid returns the same 10-byte value
\* 00 03 00 01 + MAC on every call, solicit_pd and request_pd send that
\* value as ClientId, recv compares the received ClientId against it and
\* every response it returns has client_id equal to it; the stored address
\* is unicast link-local in every reachable state, so local_ll returns it
\* and its assertion never fails.
C25_IdentityStable ==
  /\ [][IdentityKept]_vars
  /\ []IdentityShown

\* a handle built on febf::1, the last address of fe80::/10, has returned
\* that address from local_ll
C25_Witness ==
  /\ ~NoHandle
  /\ Called("local_ll")
  /\ local_ll_addr[2] = 191
  /\ Result = Ok(local_ll_addr)
====
